---------------------------- MODULE Spec2Model ----------------------------
(***************************************************************************)
(* A model of the FIM dataset generator of pixlmint/cmp-ai (python/).      *)
(*                                                                         *)
(* A Python str is modelled as a sequence of one-character strings.  The   *)
(* module holds one specification per subsystem:                           *)
(*   SpecFormat     fim/types.py       FIMExample.to_training_format       *)
(*   SpecAssemble   generate/_fim.py   generate_fim_examples               *)
(*   SpecFilter     generate/_quality.py  filter_low_quality_examples      *)
(*   SpecRebalance  generate/_fim.py   rebalance_examples                  *)
(* A specification leaves the variables of the other subsystems at their   *)
(* initial (idle) values.                                                  *)
(***************************************************************************)
EXTENDS Integers, Sequences, FiniteSets, TLC

VARIABLES
    \* --- SpecFormat ---
    fmt_family,     \* key of FIM_CONFIGS in use
    fmt_ex,         \* the FIMExample being serialized
    fmt_out,        \* the dict returned by to_training_format
    fmt_pc,         \* "idle" | "ready" | "done"
    \* --- SpecAssemble: one call of generate_fim_examples ---
    source,          \* the file's text
    use_ast,         \* use_ast and lc.ts_language is not None
    xf_context,      \* build_cross_file_context's string for the file
    bm25_file_ctx,   \* retrieve_bm25_context's string for the file
    max_total_chars, \* the budget
    asm_slot,        \* the place in all_spans' generator order reached so far
    asm_nspans,      \* spans taken from all_spans so far
    examples,        \* the list being returned
    asm_pc,          \* "idle" | "loop"
    \* --- SpecFilter: one call of filter_low_quality_examples ---
    flt_examples,      \* the examples argument
    flt_next,          \* examples already taken by the for loop
    kept,              \* the list kept
    rejected_examples, \* the list rejected_examples
    rejected_by_kind,  \* the dict rejected_by_kind
    rejected_check,    \* for each rejected example, the check that reached `continue`
    flt_pc,            \* "idle" | "loop" | "returned"
    \* --- SpecRebalance: one call of rebalance_examples ---
    reb_examples,    \* the examples argument
    reb_result,      \* the list returned
    reb_pc,          \* "idle" | "called" | "returned"
    \* --- SpecGenerate: one call of generate_all_examples ---
    gen_files,        \* source_files: what each file holds
    gen_next,         \* files already taken by the for loop
    all_examples,     \* the list all_examples
    file_complexity,  \* the dict file_complexity
    gen_pc,           \* "idle" | "loop" | "returned" | "raised"
    \* --- SpecBM25: one call of retrieve_bm25_context ---
    bm_query,        \* span_text + " " + adjacent_context
    bm_chunk_files,  \* index.chunk_files
    bm_scores,       \* index.bm25.get_scores(query)
    bm_filepath,     \* the query's own file
    bm_top_k,        \* top_k
    bm_max_tokens,   \* max_tokens
    bm_selected,     \* the (i, score) pairs whose chunk is in parts
    bm_result,       \* the returned string
    bm_pc,           \* "idle" | "called" | "returned"
    \* --- SpecCrossFile: one call of build_cross_file_context or of the PHP signature extractor ---
    cx_source,      \* source: the target file's text
    cx_filepath,    \* filepath: the target file's name
    cx_all_files,   \* all_files
    cx_max_tokens,  \* max_tokens
    cx_parts,       \* context_parts
    cx_result,      \* the returned string
    cx_rel_file,    \* the related file the PHP extractor was called for
    cx_filtered,    \* whether that call was given referenced symbols
    cx_sig,         \* the signature that call returned
    cx_pc,          \* "idle" | "called" | "returned" | "extracted"
    \* --- SpecAst: one call of extract_spans_ast ---
    ast_tree,              \* the file: its source and its parse tree (a name of AstTrees)
    ast_max_middle_lines,  \* max_middle_lines
    ast_spans,             \* spans
    ast_left,              \* iterations of the aligned-span loop still to run
    ast_window,            \* the window (start, end) of the last iteration
    ast_result,            \* result of the last iteration; <<>> is None
    ast_pc,                \* "idle" | "single" | "aligned" | "done"
    \* --- SpecDoc: one call of generate_doc_comment_spans ---
    doc_case,      \* the file: its text, parse tree and language (a name of DocCases)
    doc_accents,   \* the characters of the text that are two-byte characters
    doc_has_tree,  \* whether tree is given (not None)
    doc_chosen,    \* chosen: (doc_node, func_node) pairs, as node ids
    doc_spans,     \* spans
    doc_pc,        \* "idle" | "called" | "returned"
    \* --- SpecServer: one run of the context server ---
    srv_input,        \* the lines of sys.stdin
    srv_next,         \* the number of the next line to read
    srv_output,       \* the responses written to sys.stdout
    srv_state,        \* Handler._state: "none" (None) or the project's root
    srv_should_exit,  \* Handler.should_exit
    srv_pc,           \* "idle" | "running" | "stopped" | "crashed"
    \* --- SpecSingle: the single-node masking step of extract_spans_ast ---
    sn_len,       \* len(source_bytes)
    sn_eligible,  \* eligible
    sn_spans,     \* spans after line 167
    sn_pc,        \* "idle" | "called" | "masked"
    \* --- SpecChar: one call of generate_char_level_splits ---
    ch_len,         \* len(source)
    ch_newlines,    \* source.count("\n")
    ch_num_splits,  \* num_splits as passed
    ch_min,         \* min_middle_chars
    ch_max,         \* max_middle_chars
    ch_spans,       \* spans
    ch_left,        \* iterations of the loop still to run
    ch_pc,          \* "idle" | "called" | "loop" | "returned"
    \* --- SpecMain: one run of main ---
    run_args,      \* args: quality_filter, curriculum, curriculum_top_pct, preview
    run_files,     \* source_files
    run_next,      \* files already taken by the loop of generate_all_examples
    run_examples,  \* all_examples
    run_created,   \* the examples as the assembler created them
    run_rejected,  \* rejected
    run_steps,     \* post-processing steps completed, in order
    run_written,   \* files written, in order
    run_pc         \* the statement main is at, "idle" when not running

fmtVars == <<fmt_family, fmt_ex, fmt_out, fmt_pc>>

asmVars == <<source, use_ast, xf_context, bm25_file_ctx, max_total_chars,
             asm_slot, asm_nspans, examples, asm_pc>>

fltVars == <<flt_examples, flt_next, kept, rejected_examples, rejected_by_kind,
             rejected_check, flt_pc>>

rebVars == <<reb_examples, reb_result, reb_pc>>

genVars == <<gen_files, gen_next, all_examples, file_complexity, gen_pc>>

bmVars == <<bm_query, bm_chunk_files, bm_scores, bm_filepath, bm_top_k,
            bm_max_tokens, bm_selected, bm_result, bm_pc>>

cxVars == <<cx_source, cx_filepath, cx_all_files, cx_max_tokens, cx_parts,
            cx_result, cx_rel_file, cx_filtered, cx_sig, cx_pc>>

astVars == <<ast_tree, ast_max_middle_lines, ast_spans, ast_left, ast_window,
             ast_result, ast_pc>>

docVars == <<doc_case, doc_accents, doc_has_tree, doc_chosen, doc_spans,
             doc_pc>>

srvVars == <<srv_input, srv_next, srv_output, srv_state, srv_should_exit,
             srv_pc>>

snVars == <<sn_len, sn_eligible, sn_spans, sn_pc>>

chVars == <<ch_len, ch_newlines, ch_num_splits, ch_min, ch_max, ch_spans,
            ch_left, ch_pc>>

mainVars == <<run_args, run_files, run_next, run_examples, run_created,
              run_rejected, run_steps, run_written, run_pc>>

vars == <<fmtVars, asmVars, fltVars, rebVars, genVars, bmVars, cxVars,
         astVars, docVars, srvVars, snVars, chVars, mainVars>>

(***************************************************************************)
(* Python str helpers                                                      *)
(***************************************************************************)

\* str.isspace() for the characters of the model's alphabet
IsSpace(c) == c \in {" ", "\n", "\t"}

Min(a, b) == IF a < b THEN a ELSE b

Max(a, b) == IF a > b THEN a ELSE b

\* s[a:b] for 0 <= a, 0 <= b (Python clamps both to len(s)); 0-based, b exclusive
Slice(s, a, b) ==
    LET lo == Min(a, Len(s))
        hi == Min(b, Len(s))
    IN  IF lo >= hi THEN <<>> ELSE SubSeq(s, lo + 1, hi)

\* s[a:]
SliceFrom(s, a) == Slice(s, a, Len(s))

\* s[:b]
SliceTo(s, b) == Slice(s, 0, b)

\* s[-n:] for n >= 0.  Python: s[-0:] is s[0:], the whole string.
SliceLast(s, n) ==
    IF n = 0 THEN s ELSE SliceFrom(s, Max(0, Len(s) - n))

\* text.startswith(tok, at)  (at is 0-based)
StartsWithAt(text, tok, at) ==
    /\ at + Len(tok) <= Len(text)
    /\ \A k \in 1..Len(tok) : text[at + k] = tok[k]

\* text.find(tok, from): the 0-based index of the first occurrence at or
\* after `from`, -1 when there is none
Find(text, tok, from) ==
    LET hits == {i \in from..(Len(text) - Len(tok)) : StartsWithAt(text, tok, i)}
    IN  IF hits = {} THEN -1
        ELSE CHOOSE i \in hits : \A j \in hits : i <= j

\* tok in text
Contains(text, tok) == Find(text, tok, 0) >= 0

\* not s.strip(): s is empty or all whitespace
IsBlank(s) == \A i \in 1..Len(s) : IsSpace(s[i])

\* len(s.split()): the number of maximal runs of non-whitespace
WordCount(s) ==
    Cardinality({i \in 1..Len(s) : ~IsSpace(s[i]) /\ (i = 1 \/ IsSpace(s[i - 1]))})

\* s.count("\n")
CountNL(s) == Cardinality({i \in 1..Len(s) : s[i] = "\n"})

\* s.split("\n"): always at least one line
RECURSIVE SplitNL(_)
SplitNL(s) ==
    LET nl == Find(s, <<"\n">>, 0)
    IN  IF nl < 0 THEN <<s>>
        ELSE <<SliceTo(s, nl)>> \o SplitNL(SliceFrom(s, nl + 1))

\* "\n".join(ls)
RECURSIVE JoinNL(_)
JoinNL(ls) ==
    IF Len(ls) = 0 THEN <<>>
    ELSE IF Len(ls) = 1 THEN ls[1]
    ELSE ls[1] \o <<"\n">> \o JoinNL(Tail(ls))

\* len(s.encode("utf-8")) of one character: the model's only non-ASCII
\* character is the two-byte e-acute, written "E2"
ByteWidth(c) == IF c = "E2" THEN 2 ELSE 1

\* len(s[:n].encode("utf-8")): the byte offset of character offset n
RECURSIVE ByteOffset(_, _)
ByteOffset(s, n) ==
    IF n <= 0 THEN 0 ELSE ByteOffset(s, n - 1) + ByteWidth(s[n])

ByteLen(s) == ByteOffset(s, Len(s))

(***************************************************************************)
(* Idle values of each subsystem's variables                               *)
(***************************************************************************)

AsmIdle ==
    /\ source = <<>>
    /\ use_ast = FALSE
    /\ xf_context = <<>>
    /\ bm25_file_ctx = <<>>
    /\ max_total_chars = 0
    /\ asm_slot = 0
    /\ asm_nspans = 0
    /\ examples = <<>>
    /\ asm_pc = "idle"

FmtNoOutput ==
    [text |-> <<>>, prefix |-> <<>>, middle |-> <<>>, suffix |-> <<>>, span_kind |-> ""]

FmtIdleExample ==
    [prefix |-> <<>>, middle |-> <<>>, suffix |-> <<>>,
     cross_file_context |-> <<>>, span_kind |-> ""]

FmtIdle ==
    /\ fmt_family = "qwen"
    /\ fmt_ex = FmtIdleExample
    /\ fmt_out = FmtNoOutput
    /\ fmt_pc = "idle"

FltIdle ==
    /\ flt_examples = <<>>
    /\ flt_next = 0
    /\ kept = <<>>
    /\ rejected_examples = <<>>
    /\ rejected_by_kind = <<>>
    /\ rejected_check = <<>>
    /\ flt_pc = "idle"

RebIdle ==
    /\ reb_examples = <<>>
    /\ reb_result = <<>>
    /\ reb_pc = "idle"

GenIdle ==
    /\ gen_files = <<>>
    /\ gen_next = 0
    /\ all_examples = <<>>
    /\ file_complexity = <<>>
    /\ gen_pc = "idle"

BmIdle ==
    /\ bm_query = <<>>
    /\ bm_chunk_files = <<>>
    /\ bm_scores = <<>>
    /\ bm_filepath = <<>>
    /\ bm_top_k = 0
    /\ bm_max_tokens = 0
    /\ bm_selected = <<>>
    /\ bm_result = <<>>
    /\ bm_pc = "idle"

CxIdle ==
    /\ cx_source = <<>>
    /\ cx_filepath = <<>>
    /\ cx_all_files = <<>>
    /\ cx_max_tokens = 0
    /\ cx_parts = <<>>
    /\ cx_result = <<>>
    /\ cx_rel_file = <<>>
    /\ cx_filtered = FALSE
    /\ cx_sig = <<>>
    /\ cx_pc = "idle"

AstIdle ==
    /\ ast_tree = "none"
    /\ ast_max_middle_lines = 0
    /\ ast_spans = <<>>
    /\ ast_left = 0
    /\ ast_window = <<>>
    /\ ast_result = <<>>
    /\ ast_pc = "idle"

DocIdle ==
    /\ doc_case = "none"
    /\ doc_accents = {}
    /\ doc_has_tree = FALSE
    /\ doc_chosen = <<>>
    /\ doc_spans = <<>>
    /\ doc_pc = "idle"

SrvIdle ==
    /\ srv_input = <<>>
    /\ srv_next = 0
    /\ srv_output = <<>>
    /\ srv_state = "none"
    /\ srv_should_exit = FALSE
    /\ srv_pc = "idle"

SnIdle ==
    /\ sn_len = 0
    /\ sn_eligible = <<>>
    /\ sn_spans = <<>>
    /\ sn_pc = "idle"

ChIdle ==
    /\ ch_len = 0
    /\ ch_newlines = 0
    /\ ch_num_splits = 0
    /\ ch_min = 0
    /\ ch_max = 0
    /\ ch_spans = <<>>
    /\ ch_left = 0
    /\ ch_pc = "idle"

MainIdle ==
    /\ run_args = <<>>
    /\ run_files = <<>>
    /\ run_next = 0
    /\ run_examples = <<>>
    /\ run_created = <<>>
    /\ run_rejected = <<>>
    /\ run_steps = <<>>
    /\ run_written = <<>>
    /\ run_pc = "idle"

(***************************************************************************)
(* Frames: for each subsystem, the variables of all the others and their   *)
(* idle values                                                             *)
(***************************************************************************)

fmtRest == <<asmVars, fltVars, rebVars, genVars, bmVars, cxVars, astVars, docVars, srvVars, snVars, chVars, mainVars>>

FmtRestIdle ==
    AsmIdle /\ FltIdle /\ RebIdle /\ GenIdle /\ BmIdle /\ CxIdle /\ AstIdle /\ DocIdle /\ SrvIdle /\ SnIdle /\ ChIdle /\ MainIdle

asmRest == <<fmtVars, fltVars, rebVars, genVars, bmVars, cxVars, astVars, docVars, srvVars, snVars, chVars, mainVars>>

AsmRestIdle ==
    FmtIdle /\ FltIdle /\ RebIdle /\ GenIdle /\ BmIdle /\ CxIdle /\ AstIdle /\ DocIdle /\ SrvIdle /\ SnIdle /\ ChIdle /\ MainIdle

fltRest == <<fmtVars, asmVars, rebVars, genVars, bmVars, cxVars, astVars, docVars, srvVars, snVars, chVars, mainVars>>

FltRestIdle ==
    FmtIdle /\ AsmIdle /\ RebIdle /\ GenIdle /\ BmIdle /\ CxIdle /\ AstIdle /\ DocIdle /\ SrvIdle /\ SnIdle /\ ChIdle /\ MainIdle

rebRest == <<fmtVars, asmVars, fltVars, genVars, bmVars, cxVars, astVars, docVars, srvVars, snVars, chVars, mainVars>>

RebRestIdle ==
    FmtIdle /\ AsmIdle /\ FltIdle /\ GenIdle /\ BmIdle /\ CxIdle /\ AstIdle /\ DocIdle /\ SrvIdle /\ SnIdle /\ ChIdle /\ MainIdle

genRest == <<fmtVars, asmVars, fltVars, rebVars, bmVars, cxVars, astVars, docVars, srvVars, snVars, chVars, mainVars>>

GenRestIdle ==
    FmtIdle /\ AsmIdle /\ FltIdle /\ RebIdle /\ BmIdle /\ CxIdle /\ AstIdle /\ DocIdle /\ SrvIdle /\ SnIdle /\ ChIdle /\ MainIdle

bmRest == <<fmtVars, asmVars, fltVars, rebVars, genVars, cxVars, astVars, docVars, srvVars, snVars, chVars, mainVars>>

BmRestIdle ==
    FmtIdle /\ AsmIdle /\ FltIdle /\ RebIdle /\ GenIdle /\ CxIdle /\ AstIdle /\ DocIdle /\ SrvIdle /\ SnIdle /\ ChIdle /\ MainIdle

cxRest == <<fmtVars, asmVars, fltVars, rebVars, genVars, bmVars, astVars, docVars, srvVars, snVars, chVars, mainVars>>

CxRestIdle ==
    FmtIdle /\ AsmIdle /\ FltIdle /\ RebIdle /\ GenIdle /\ BmIdle /\ AstIdle /\ DocIdle /\ SrvIdle /\ SnIdle /\ ChIdle /\ MainIdle

astRest == <<fmtVars, asmVars, fltVars, rebVars, genVars, bmVars, cxVars, docVars, srvVars, snVars, chVars, mainVars>>

AstRestIdle ==
    FmtIdle /\ AsmIdle /\ FltIdle /\ RebIdle /\ GenIdle /\ BmIdle /\ CxIdle /\ DocIdle /\ SrvIdle /\ SnIdle /\ ChIdle /\ MainIdle

docRest == <<fmtVars, asmVars, fltVars, rebVars, genVars, bmVars, cxVars, astVars, srvVars, snVars, chVars, mainVars>>

DocRestIdle ==
    FmtIdle /\ AsmIdle /\ FltIdle /\ RebIdle /\ GenIdle /\ BmIdle /\ CxIdle /\ AstIdle /\ SrvIdle /\ SnIdle /\ ChIdle /\ MainIdle

srvRest == <<fmtVars, asmVars, fltVars, rebVars, genVars, bmVars, cxVars, astVars, docVars, snVars, chVars, mainVars>>

SrvRestIdle ==
    FmtIdle /\ AsmIdle /\ FltIdle /\ RebIdle /\ GenIdle /\ BmIdle /\ CxIdle /\ AstIdle /\ DocIdle /\ SnIdle /\ ChIdle /\ MainIdle

snRest == <<fmtVars, asmVars, fltVars, rebVars, genVars, bmVars, cxVars, astVars, docVars, srvVars, chVars, mainVars>>

SnRestIdle ==
    FmtIdle /\ AsmIdle /\ FltIdle /\ RebIdle /\ GenIdle /\ BmIdle /\ CxIdle /\ AstIdle /\ DocIdle /\ SrvIdle /\ ChIdle /\ MainIdle

chRest == <<fmtVars, asmVars, fltVars, rebVars, genVars, bmVars, cxVars, astVars, docVars, srvVars, snVars, mainVars>>

ChRestIdle ==
    FmtIdle /\ AsmIdle /\ FltIdle /\ RebIdle /\ GenIdle /\ BmIdle /\ CxIdle /\ AstIdle /\ DocIdle /\ SrvIdle /\ SnIdle /\ MainIdle

mainRest == <<fmtVars, asmVars, fltVars, rebVars, genVars, bmVars, cxVars, astVars, docVars, srvVars, snVars, chVars>>

MainRestIdle ==
    FmtIdle /\ AsmIdle /\ FltIdle /\ RebIdle /\ GenIdle /\ BmIdle /\ CxIdle /\ AstIdle /\ DocIdle /\ SrvIdle /\ SnIdle /\ ChIdle

(***************************************************************************)
(* fim/types.py: FIMConfig, FIM_CONFIGS, FIMExample.to_training_format     *)
(***************************************************************************)

FIM_CONFIGS ==
    [ qwen |->
        [ prefix_tok |-> <<"<", "|", "f", "i", "m", "_", "p", "r", "e", "f", "i", "x", "|", ">">>,
          suffix_tok |-> <<"<", "|", "f", "i", "m", "_", "s", "u", "f", "f", "i", "x", "|", ">">>,
          middle_tok |-> <<"<", "|", "f", "i", "m", "_", "m", "i", "d", "d", "l", "e", "|", ">">>,
          eot_tok    |-> <<"<", "|", "e", "n", "d", "o", "f", "t", "e", "x", "t", "|", ">">> ],
      granite |->
        [ prefix_tok |-> <<"<", "f", "i", "m", "_", "p", "r", "e", "f", "i", "x", ">">>,
          suffix_tok |-> <<"<", "f", "i", "m", "_", "s", "u", "f", "f", "i", "x", ">">>,
          middle_tok |-> <<"<", "f", "i", "m", "_", "m", "i", "d", "d", "l", "e", ">">>,
          eot_tok    |-> <<"<", "|", "e", "n", "d", "o", "f", "t", "e", "x", "t", "|", ">">> ],
      codellama |->
        [ prefix_tok |-> <<"<", "P", "R", "E", ">">>,
          suffix_tok |-> <<"<", "S", "U", "F", ">">>,
          middle_tok |-> <<"<", "M", "I", "D", ">">>,
          eot_tok    |-> <<"<", "/", "s", ">">> ],
      starcoder |->
        [ prefix_tok |-> <<"<", "f", "i", "m", "_", "p", "r", "e", "f", "i", "x", ">">>,
          suffix_tok |-> <<"<", "f", "i", "m", "_", "s", "u", "f", "f", "i", "x", ">">>,
          middle_tok |-> <<"<", "f", "i", "m", "_", "m", "i", "d", "d", "l", "e", ">">>,
          eot_tok    |-> <<"<", "|", "e", "n", "d", "o", "f", "t", "e", "x", "t", "|", ">">> ] ]

Families == DOMAIN FIM_CONFIGS

\* A plausible slip: the arguments joined in prefix-middle-suffix order.
format_psm_PMS(cfg, prefix, middle, suffix) ==
    cfg.prefix_tok \o prefix \o cfg.middle_tok \o middle
        \o cfg.suffix_tok \o suffix \o cfg.eot_tok

\* A plausible slip: the closing end-of-text literal is left out.
format_psm_NoEot(cfg, prefix, middle, suffix) ==
    cfg.prefix_tok \o prefix \o cfg.suffix_tok \o suffix
        \o cfg.middle_tok \o middle

\* FIMConfig.format_psm
format_psm(cfg, prefix, middle, suffix) ==
    cfg.prefix_tok \o prefix \o cfg.suffix_tok \o suffix
        \o cfg.middle_tok \o middle \o cfg.eot_tok

\* FIMExample.to_training_format (the text and the structured fields)
to_training_format(ex, cfg) ==
    LET full_prefix == ex.cross_file_context \o ex.prefix
        formatted   == format_psm(cfg, full_prefix, ex.middle, ex.suffix)
    IN  [ text      |-> formatted,
          prefix    |-> full_prefix,
          middle    |-> ex.middle,
          suffix    |-> ex.suffix,
          span_kind |-> ex.span_kind ]


\* Reading a PSM text back: split on the four literals, each at its first
\* occurrence after the previous one (text.index, as tests/test_types.py does)
ParsePSM(text, cfg) ==
    LET i1 == Find(text, cfg.suffix_tok, Len(cfg.prefix_tok))
        i2 == IF i1 < 0 THEN -1 ELSE Find(text, cfg.middle_tok, i1 + Len(cfg.suffix_tok))
        i3 == IF i2 < 0 THEN -1 ELSE Find(text, cfg.eot_tok, i2 + Len(cfg.middle_tok))
    IN  IF ~StartsWithAt(text, cfg.prefix_tok, 0) \/ i3 < 0
          THEN [ok |-> FALSE, prefix |-> <<>>, suffix |-> <<>>, middle |-> <<>>]
          ELSE [ok     |-> i3 + Len(cfg.eot_tok) = Len(text),
                prefix |-> Slice(text, Len(cfg.prefix_tok), i1),
                suffix |-> Slice(text, i1 + Len(cfg.suffix_tok), i2),
                middle |-> Slice(text, i2 + Len(cfg.middle_tok), i3)]

(***************************************************************************)
(* SpecFormat: one example is serialized for one model family              *)
(***************************************************************************)

\* Longest input string, counted in pieces (a piece is a character or one of
\* the family's token literals)
MaxPieces == 1

Pieces(cfg) == {<<"a">>, cfg.suffix_tok, cfg.middle_tok, cfg.eot_tok}

RECURSIVE PieceStrings(_, _)
PieceStrings(cfg, n) ==
    IF n = 0 THEN {<<>>}
    ELSE LET shorter == PieceStrings(cfg, n - 1)
         IN  shorter \cup {s \o p : s \in shorter, p \in Pieces(cfg)}

FmtStrings(cfg) == PieceStrings(cfg, MaxPieces)

FmtContexts == {<<>>, <<"c", "\n">>}

InitFormat ==
    /\ fmt_family \in Families
    /\ fmt_ex \in [prefix : FmtStrings(FIM_CONFIGS[fmt_family]),
                   middle : FmtStrings(FIM_CONFIGS[fmt_family]),
                   suffix : FmtStrings(FIM_CONFIGS[fmt_family]),
                   cross_file_context : FmtContexts,
                   span_kind : {"ast_single_node"}]
    /\ fmt_out = FmtNoOutput
    /\ fmt_pc = "ready"
    /\ FmtRestIdle

\* ex.to_training_format(FIM_CONFIGS[family])
Serialize ==
    /\ fmt_pc = "ready"
    /\ fmt_out' = to_training_format(fmt_ex, FIM_CONFIGS[fmt_family])
    /\ fmt_pc' = "done"
    /\ UNCHANGED <<fmt_family, fmt_ex>>
    /\ UNCHANGED fmtRest

NextFormat == Serialize

SpecFormat == InitFormat /\ [][NextFormat]_vars

(***************************************************************************)
(* Claims on the token format                                              *)
(***************************************************************************)

\* The token literals of section 6 of the specification, per family
TokenTable ==
    [ qwen      |-> << <<"<", "|", "f", "i", "m", "_", "p", "r", "e", "f", "i", "x", "|", ">">>,
                       <<"<", "|", "f", "i", "m", "_", "s", "u", "f", "f", "i", "x", "|", ">">>,
                       <<"<", "|", "f", "i", "m", "_", "m", "i", "d", "d", "l", "e", "|", ">">>,
                       <<"<", "|", "e", "n", "d", "o", "f", "t", "e", "x", "t", "|", ">">> >>,
      granite   |-> << <<"<", "f", "i", "m", "_", "p", "r", "e", "f", "i", "x", ">">>,
                       <<"<", "f", "i", "m", "_", "s", "u", "f", "f", "i", "x", ">">>,
                       <<"<", "f", "i", "m", "_", "m", "i", "d", "d", "l", "e", ">">>,
                       <<"<", "|", "e", "n", "d", "o", "f", "t", "e", "x", "t", "|", ">">> >>,
      codellama |-> << <<"<", "P", "R", "E", ">">>, <<"<", "S", "U", "F", ">">>,
                       <<"<", "M", "I", "D", ">">>, <<"<", "/", "s", ">">> >>,
      starcoder |-> << <<"<", "f", "i", "m", "_", "p", "r", "e", "f", "i", "x", ">">>,
                       <<"<", "f", "i", "m", "_", "s", "u", "f", "f", "i", "x", ">">>,
                       <<"<", "f", "i", "m", "_", "m", "i", "d", "d", "l", "e", ">">>,
                       <<"<", "|", "e", "n", "d", "o", "f", "t", "e", "x", "t", "|", ">">> >> ]

\* C4: for each of the four families the text of the serialized record is
\* prefix_tok + cross_file_context + prefix + suffix_tok + suffix +
\* middle_tok + middle + eot_tok with the family's literals, and the record's
\* prefix field is cross_file_context + prefix.
C4_TextIsPSM ==
    fmt_pc = "done" =>
        LET t == TokenTable[fmt_family]
        IN  /\ fmt_out.text = t[1] \o fmt_ex.cross_file_context \o fmt_ex.prefix
                                \o t[2] \o fmt_ex.suffix
                                \o t[3] \o fmt_ex.middle \o t[4]
            /\ fmt_out.prefix = fmt_ex.cross_file_context \o fmt_ex.prefix

\* A codellama record whose context, prefix, middle and suffix are all
\* non-empty has been serialized.
C4_Witness ==
    /\ fmt_pc = "done"
    /\ fmt_family = "codellama"
    /\ fmt_ex.cross_file_context # <<>>
    /\ fmt_ex.prefix = <<"a">>
    /\ fmt_ex.middle = <<"a">>
    /\ fmt_ex.suffix = <<"a">>

FmtTriple == <<fmt_ex.cross_file_context \o fmt_ex.prefix, fmt_ex.suffix, fmt_ex.middle>>

FmtParsed ==
    LET r == ParsePSM(fmt_out.text, FIM_CONFIGS[fmt_family])
    IN  r.ok /\ <<r.prefix, r.suffix, r.middle>> = FmtTriple

\* none of the three strings holds one of the family's four literals
FmtTokenFree ==
    LET cfg == FIM_CONFIGS[fmt_family]
    IN  \A s \in {FmtTriple[1], FmtTriple[2], FmtTriple[3]} :
        \A tok \in {cfg.prefix_tok, cfg.suffix_tok, cfg.middle_tok, cfg.eot_tok} :
            ~Contains(s, tok)

\* C5 as stated: for every choice of the three strings, splitting the text
\* on the four literals gives back (cross_file_context + prefix, suffix,
\* middle).
C5_Original == fmt_pc = "done" => FmtParsed

\* C5 amended: the split gives the three strings back whenever none of them
\* contains one of the family's token literals.
C5_InverseOnTokenFree == (fmt_pc = "done" /\ FmtTokenFree) => FmtParsed

\* A token-free example with non-empty strings has been serialized and read
\* back.
C5_Witness ==
    /\ fmt_pc = "done"
    /\ FmtTokenFree
    /\ fmt_ex.cross_file_context # <<>>
    /\ fmt_ex.prefix # <<>> /\ fmt_ex.suffix # <<>> /\ fmt_ex.middle # <<>>
    /\ FmtParsed

(***************************************************************************)
(* generate/_fim.py: the example assembler                                 *)
(***************************************************************************)

MIN_MIDDLE_WORDS == 3

\* generate_fim_examples' defaults
min_middle_lines == 1

max_middle_lines == 30

\* _make_example_from_line_span's per-side cap
max_context_lines == 80

NoFilters == {}

\* CodeSpan(...).  skip_quality_filters is the field _fim.py:125,
\* _quality.py:149 and _spans_devbehavior.py:323 use; its default is empty.
CodeSpan(kind, start_line, end_line, start_byte, end_byte, skip) ==
    [kind |-> kind, start_line |-> start_line, end_line |-> end_line,
     start_byte |-> start_byte, end_byte |-> end_byte,
     skip_quality_filters |-> skip]

FIMExample(kind, prefix, middle, suffix, xf, mid_lines, total_lines, skip) ==
    [span_kind |-> kind, prefix |-> prefix, middle |-> middle, suffix |-> suffix,
     cross_file_context |-> xf, middle_lines |-> mid_lines,
     total_lines |-> total_lines, skip_quality_filters |-> skip]

ExampleTotal(ex) ==
    Len(ex.prefix) + Len(ex.middle) + Len(ex.suffix) + Len(ex.cross_file_context)

\* _make_example_from_byte_span, line 110-112: the second budget check
ByteSpanFits(prefix, middle, suffix, xf, budget) ==
    Len(prefix) + Len(middle) + Len(suffix) + Len(xf) <= budget

\* A plausible slip: the prefix keeps its first max_ctx characters.
TruncatePrefix_Head(prefix, max_ctx) ==
    IF Len(prefix) > max_ctx THEN SliceTo(prefix, max_ctx) ELSE prefix

\* _make_example_from_byte_span, line 106-107
TruncatePrefix(prefix, max_ctx) ==
    IF Len(prefix) > max_ctx THEN SliceLast(prefix, max_ctx) ELSE prefix

\* _make_example_from_byte_span, line 108-109
TruncateSuffix(suffix, max_ctx) ==
    IF Len(suffix) > max_ctx THEN SliceTo(suffix, max_ctx) ELSE suffix

\* A plausible slip: the word minimum is not applied.
MiddleRejected_NoWords(middle, min_words) == IsBlank(middle)

\* line 100 (and line 152): the middle is blank or has too few words
MiddleRejected(middle, min_words) ==
    IsBlank(middle) \/ WordCount(middle) < min_words

\* line 96: prefix = source[:sb]
SpanPrefix(src, span) == SliceTo(src, span.start_byte)

\* line 97: middle = source[sb:eb]
SpanMiddle(src, span) == Slice(src, span.start_byte, span.end_byte)

\* A plausible slip: the suffix starts one character late.
SpanSuffix_SkipOne(src, span) == SliceFrom(src, span.end_byte + 1)

\* line 98: suffix = source[eb:]
SpanSuffix(src, span) == SliceFrom(src, span.end_byte)

\* _make_example_from_byte_span: <<>> for None, <<example>> otherwise
make_example_from_byte_span(src, span, xf, budget, lines, min_words) ==
    LET prefix  == SpanPrefix(src, span)
        middle  == SpanMiddle(src, span)
        suffix  == SpanSuffix(src, span)
        total   == Len(prefix) + Len(middle) + Len(suffix) + Len(xf)
        max_ctx == budget \div 3
        prefix2 == IF total > budget THEN TruncatePrefix(prefix, max_ctx) ELSE prefix
        suffix2 == IF total > budget THEN TruncateSuffix(suffix, max_ctx) ELSE suffix
    IN  IF MiddleRejected(middle, min_words) THEN <<>>
        ELSE IF total > budget /\ ~ByteSpanFits(prefix2, middle, suffix2, xf, budget)
          THEN <<>>
        ELSE << FIMExample(span.kind, prefix2, middle, suffix2, xf,
                           CountNL(middle) + 1, Len(lines),
                           span.skip_quality_filters) >>

\* lines[-n:] and lines[:n] of a list of lines
LastLines(ls, n) ==
    IF n = 0 THEN ls ELSE SubSeq(ls, Max(0, Len(ls) - n) + 1, Len(ls))

FirstLines(ls, n) == SubSeq(ls, 1, Min(n, Len(ls)))

\* _make_example_from_line_span
make_example_from_line_span(src, span, xf, budget, max_lines, min_lines, lines) ==
    LET span_lines   == span.end_line - span.start_line + 1
        nl           == Len(lines)
        lo           == Min(span.start_line, nl)
        hi           == Min(span.end_line + 1, nl)
        prefix_lines == SubSeq(lines, 1, lo)
        middle_lst   == SubSeq(lines, lo + 1, hi)
        suffix_lines == SubSeq(lines, hi + 1, nl)
        prefix       == JoinNL(prefix_lines)
        middle       == JoinNL(middle_lst)
        suffix       == JoinNL(suffix_lines)
        total        == Len(prefix) + Len(middle) + Len(suffix) + Len(xf)
        prefix2      == IF total > budget /\ Len(prefix_lines) > max_context_lines
                          THEN JoinNL(LastLines(prefix_lines, max_context_lines))
                          ELSE prefix
        suffix2      == IF total > budget /\ Len(suffix_lines) > max_context_lines
                          THEN JoinNL(FirstLines(suffix_lines, max_context_lines))
                          ELSE suffix
        total2       == Len(prefix2) + Len(middle) + Len(suffix2) + Len(xf)
    IN  IF span_lines < min_lines \/ span_lines > max_lines THEN <<>>
        ELSE IF MiddleRejected(middle, MIN_MIDDLE_WORDS) THEN <<>>
        ELSE IF total > budget /\ total2 > budget THEN <<>>
        ELSE << FIMExample(span.kind,
                           prefix2 \o <<"\n">>,
                           middle,
                           IF suffix2 # <<>> THEN <<"\n">> \o suffix2 ELSE <<>>,
                           xf, span_lines, nl, NoFilters) >>

IsDevKind(kind) == kind \in {"dev_incomplete_line", "dev_bracket_content",
                             "dev_post_comment", "dev_doc_comment"}

\* generate_fim_examples, line 276-282: the cached per-file BM25 context
WithBM25(ex, bm25, budget) ==
    LET combined == bm25 \o ex.cross_file_context
        total    == Len(ex.prefix) + Len(ex.middle) + Len(ex.suffix) + Len(combined)
    IN  IF bm25 # <<>> /\ total <= budget
          THEN [ex EXCEPT !.cross_file_context = combined]
          ELSE ex

\* generate_fim_examples, line 251-284: one pass of the loop body (lines is
\* source.split("\n") of line 204); the sequence to append to examples
ConvertSpan(src, lines, span, xf, bm25, budget) ==
    LET made  ==
          IF span.start_byte >= 0 /\ span.end_byte > span.start_byte
            THEN make_example_from_byte_span(
                     src, span, xf, budget, lines,
                     IF IsDevKind(span.kind) THEN 1 ELSE MIN_MIDDLE_WORDS)
          ELSE IF span.kind = "char_random"
            THEN make_example_from_byte_span(
                     src,
                     CodeSpan(span.kind, span.start_line, span.end_line,
                              span.start_line, span.end_line, NoFilters),
                     xf, budget, lines, MIN_MIDDLE_WORDS)
          ELSE make_example_from_line_span(
                     src, span, xf, budget, max_middle_lines, min_middle_lines, lines)
    IN  IF made = <<>> THEN <<>> ELSE << WithBM25(made[1], bm25, budget) >>

(***************************************************************************)
(* The spans a file can yield.  tree-sitter's tree is abstracted: a node   *)
(* is a token (a run of non-blank characters), a statement (a line from    *)
(* its first to its last token) or a run of statements.                    *)
(***************************************************************************)

\* 0-based character offsets; an end is exclusive
TokenStarts(src) ==
    {i \in 0..(Len(src) - 1) : ~IsSpace(src[i + 1]) /\ (i = 0 \/ IsSpace(src[i]))}

TokenEnds(src) ==
    {i \in 1..Len(src) : ~IsSpace(src[i]) /\ (i = Len(src) \/ IsSpace(src[i + 1]))}

LineStart(src, a) ==
    LET nls == {i \in 1..a : src[i] = "\n"}
    IN  IF nls = {} THEN 0 ELSE CHOOSE i \in nls : \A j \in nls : j <= i

LineEnd(src, a) ==
    LET nl == Find(src, <<"\n">>, a) IN IF nl < 0 THEN Len(src) ELSE nl

StatementStarts(src) ==
    {a \in TokenStarts(src) : IsBlank(Slice(src, LineStart(src, a), a))}

StatementEnds(src) ==
    {b \in TokenEnds(src) : IsBlank(Slice(src, b, LineEnd(src, b)))}

\* node ranges <<start, end>> in character offsets
Nodes(src) ==
    {r \in TokenStarts(src) \X TokenEnds(src) :
        /\ r[1] < r[2]
        /\ \/ ~(\E i \in (r[1] + 1)..r[2] : IsSpace(src[i]))
           \/ r[1] \in StatementStarts(src) /\ r[2] \in StatementEnds(src)}

LineOf(src, a) == CountNL(SliceTo(src, a))

\* a span whose offsets are tree-sitter's: bytes of the UTF-8 source
ByteSpan(src, kind, a, b) ==
    CodeSpan(kind, LineOf(src, a), LineOf(src, b),
             ByteOffset(src, a), ByteOffset(src, b), NoFilters)

NodeWidth(src, r) == ByteOffset(src, r[2]) - ByteOffset(src, r[1])

\* extract_spans_ast, line 144-167 (nodes wider than 5 bytes, line 17)
SingleNodeSpans(src) ==
    {ByteSpan(src, "ast_single_node", r[1], r[2]) :
        r \in {n \in Nodes(src) : NodeWidth(src, n) > 5}}

\* extract_spans_ast, line 170-197 (width at least 5, at most half the file)
AlignedSpans(src) ==
    {ByteSpan(src, "ast_aligned_span", r[1], r[2]) :
        r \in {n \in Nodes(src) : /\ NodeWidth(src, n) >= 5
                                  /\ NodeWidth(src, n) <= ByteLen(src) \div 2}}

\* generate_incomplete_line_spans, line 28-58: a cut inside a line whose
\* stripped text is longer than 10; character offsets
IncompleteRandomSpans(src) ==
    {CodeSpan("dev_incomplete_line", LineOf(src, a), LineOf(src, a),
              a, LineEnd(src, a), NoFilters) :
        a \in {c \in 0..Len(src) :
                 LET ls   == LineStart(src, c)
                     le   == LineEnd(src, c)
                     line == Slice(src, ls, le)
                     ind  == CHOOSE k \in 0..Len(line) :
                                /\ IsBlank(SliceTo(line, k))
                                /\ (k = Len(line) \/ ~IsSpace(line[k + 1]))
                     slen == Len(line) - ind
                 IN  /\ ~IsBlank(line)
                     /\ slen > 10
                     /\ c - ls - ind >= 3 /\ c - ls - ind <= slen - 1
                     /\ le - c >= 3}}

\* generate_incomplete_line_spans, line 63-100: the cut follows a trigger
\* token; the end is the line's end (characters) or the end of the node
\* holding the cut (bytes)
IncompleteTriggerSpans(src) ==
    {CodeSpan("dev_incomplete_line", LineOf(src, r[1]), LineOf(src, r[1]),
              r[1], r[2], NoFilters) :
        r \in {q \in (TokenEnds(src) \cup TokenStarts(src))
                       \X ({LineEnd(src, a) : a \in 0..Len(src)}
                             \cup {ByteOffset(src, b) : b \in TokenEnds(src)}) :
                 /\ q[1] \notin StatementStarts(src)
                 /\ q[2] - q[1] >= 3
                 /\ q[2] <= ByteOffset(src, LineEnd(src, q[1]))}}

\* generate_bracket_context_spans, line 137-154: between the first and the
\* last child of a node, at least 2 bytes
BracketSpans(src) ==
    {ByteSpan(src, "dev_bracket_content", r[1], r[2]) :
        r \in {q \in TokenEnds(src) \X TokenStarts(src) :
                 /\ ByteOffset(src, q[2]) - ByteOffset(src, q[1]) >= 2
                 /\ LineOf(src, q[1]) = LineOf(src, q[2])}}

\* generate_post_comment_spans, line 172-188: the node after a comment,
\* wider than 5 bytes
PostCommentSpans(src) ==
    {ByteSpan(src, "dev_post_comment", r[1], r[2]) :
        r \in {n \in Nodes(src) : /\ NodeWidth(src, n) > 5
                                  /\ n[1] \in StatementStarts(src)
                                  /\ n[1] > 0}}

\* generate_doc_comment_spans, line 278-324: from the line after the
\* opener to the comment's end, converted to character offsets
DocCommentSpans(src) ==
    {CodeSpan("dev_doc_comment", LineOf(src, r[1]), LineOf(src, r[2]),
              r[1], r[2], {"comment_only"}) :
        r \in {q \in {LineStart(src, a) : a \in 1..Len(src)} \X StatementEnds(src) :
                 /\ q[1] > 0
                 /\ q[1] < q[2]
                 /\ q[2] - q[1] <= Len(src) \div 2}}

\* generate_char_level_splits called with its defaults
min_middle_chars == 10

max_middle_chars == 500

\* generate_char_level_splits, line 23-47: character offsets, kept in
\* start_line and end_line
CharSplits(src) ==
    IF Len(src) < min_middle_chars * 3 THEN {}
    ELSE {CodeSpan("char_random", r[1], r[1] + r[2], -1, -1, NoFilters) :
            r \in {q \in (1..Len(src))
                          \X (min_middle_chars..Min(max_middle_chars, Len(src) \div 3)) :
                     q[1] <= Len(src) - q[2] - 1}}

\* extract_spans_regex: line-locator spans (0-indexed, end inclusive)
LineSpan(kind, a, b) == CodeSpan(kind, a, b, -1, -1, NoFilters)

\* line 49, 76, 108 and 118-134 of _spans_regex.py
RegexSpans(src, kind) ==
    LET n == Len(SplitNL(src))
    IN  {LineSpan(kind, r[1], r[2]) :
           r \in {q \in (0..(n - 1)) \X (0..(n - 1)) :
                    CASE kind = "function_body" ->
                           q[2] > q[1] + 1 /\ q[1] >= 1 /\ q[2] <= n - 2
                      [] kind = "expression"    ->
                           q[2] >= q[1] + 1 /\ q[1] >= 1 /\ q[2] <= n - 2
                      [] kind = "block"         ->
                           q[2] > q[1] + 1 /\ q[1] >= 1 /\ q[2] <= n - 2
                      [] OTHER                  ->
                           /\ n > 10
                           /\ q[2] - q[1] + 1 >= 2
                           /\ q[2] - q[1] + 1 <= Min(8, n \div 4)
                           /\ q[1] >= 2
                           /\ q[1] <= n - (q[2] - q[1] + 1) - 2}}

\* all_spans' generator order in generate_fim_examples, line 232-248
AstSlots == <<"ast_single_node", "ast_aligned_span", "dev_incomplete_random",
              "dev_incomplete_trigger", "dev_bracket_content",
              "dev_post_comment", "dev_doc_comment", "char_random">>

RegexSlots == <<"function_body", "expression", "block", "lines", "char_random">>

SlotSpans(src, slot) ==
    CASE slot = "ast_single_node"        -> SingleNodeSpans(src)
      [] slot = "ast_aligned_span"       -> AlignedSpans(src)
      [] slot = "dev_incomplete_random"  -> IncompleteRandomSpans(src)
      [] slot = "dev_incomplete_trigger" -> IncompleteTriggerSpans(src)
      [] slot = "dev_bracket_content"    -> BracketSpans(src)
      [] slot = "dev_post_comment"       -> PostCommentSpans(src)
      [] slot = "dev_doc_comment"        -> DocCommentSpans(src)
      [] slot = "char_random"            -> CharSplits(src)
      [] OTHER                           -> RegexSpans(src, slot)

(***************************************************************************)
(* SpecAssemble: one call of generate_fim_examples                         *)
(***************************************************************************)

\* "ab cd ef", "", "ghijkl", "", "mn op", "", "", "q rs", "", "": ten lines
SrcAscii ==
    <<"a", "b", " ", "c", "d", " ", "e", "f", "\n", "\n", "g", "h", "i", "j", "k", "l", "\n", "\n", "m", "n", " ", "o", "p", "\n", "\n", "\n", "q", " ", "r", "s", "\n", "\n">>

\* the same file with a two-byte character in place of the "g"
SrcMultiByte ==
    <<"a", "b", " ", "c", "d", " ", "e", "f", "\n", "\n", "E2", "h", "i", "j", "k", "l", "\n", "\n", "m", "n", " ", "o", "p", "\n", "\n", "\n", "q", " ", "r", "s", "\n", "\n">>

AsmSources == {SrcAscii, SrcMultiByte}

\* build_cross_file_context's result: nothing, or a signature block
AsmContexts == {<<>>, <<"/", "/", "\n">>}

\* retrieve_bm25_context's result: nothing, or a chunk
AsmBM25 == {<<>>, <<"#", "b", "m", "\n">>}

\* the default budget, one that forces truncation, one few examples fit
AsmBudgets == {8192, 30, 24}

\* spans taken from all_spans in one call
MaxSpans == 2

\* line 204: lines = source.split("\n")
FileLines == [src \in AsmSources |-> SplitNL(src)]

\* what each generator can yield for each file of the model
FileSpans ==
    [src \in AsmSources |->
        [slot \in {AstSlots[k] : k \in 1..Len(AstSlots)}
                     \cup {RegexSlots[k] : k \in 1..Len(RegexSlots)} |->
            SlotSpans(src, slot)]]

\* the files with the branch taken for each: tree-sitter spans for both,
\* the regex fallback for the ASCII file
AsmFiles == {<<SrcAscii, TRUE>>, <<SrcMultiByte, TRUE>>, <<SrcAscii, FALSE>>}

InitAssemble ==
    /\ \E f \in AsmFiles : source = f[1] /\ use_ast = f[2]
    /\ xf_context \in AsmContexts
    /\ bm25_file_ctx \in AsmBM25
    /\ max_total_chars \in AsmBudgets
    /\ asm_slot = 0
    /\ asm_nspans = 0
    /\ examples = <<>>
    /\ asm_pc = "loop"
    /\ AsmRestIdle

AsmFrame == UNCHANGED <<source, use_ast, xf_context, bm25_file_ctx, max_total_chars, asm_pc>>

\* one pass of the loop of line 251-284 over a span of the AST branch
\* (line 232-241); each generator yields at most one span for a file this small
ConvertAstSpan ==
    /\ asm_pc = "loop" /\ use_ast /\ asm_nspans < MaxSpans
    /\ \E k \in (asm_slot + 1)..(Len(AstSlots) - 1) :
         \E span \in FileSpans[source][AstSlots[k]] :
            /\ examples' = examples \o
                 ConvertSpan(source, FileLines[source], span, xf_context,
                             bm25_file_ctx, max_total_chars)
            /\ asm_slot' = k
    /\ asm_nspans' = asm_nspans + 1
    /\ AsmFrame
    /\ UNCHANGED asmRest

\* the same over a span of the regex fallback (line 244); a generator may
\* yield several spans
ConvertRegexSpan ==
    /\ asm_pc = "loop" /\ ~use_ast /\ asm_nspans < MaxSpans
    /\ \E k \in Max(asm_slot, 1)..(Len(RegexSlots) - 1) :
         \E span \in FileSpans[source][RegexSlots[k]] :
            /\ examples' = examples \o
                 ConvertSpan(source, FileLines[source], span, xf_context,
                             bm25_file_ctx, max_total_chars)
            /\ asm_slot' = k
    /\ asm_nspans' = asm_nspans + 1
    /\ AsmFrame
    /\ UNCHANGED asmRest

\* the same over the file's char_random span (line 247-248), the last of
\* all_spans in both branches
ConvertCharSpan ==
    /\ asm_pc = "loop" /\ asm_slot < Len(AstSlots) /\ asm_nspans < MaxSpans
    /\ \E span \in FileSpans[source]["char_random"] :
         examples' = examples \o
             ConvertSpan(source, FileLines[source], span, xf_context,
                             bm25_file_ctx, max_total_chars)
    /\ asm_slot' = Len(AstSlots)
    /\ asm_nspans' = asm_nspans + 1
    /\ AsmFrame
    /\ UNCHANGED asmRest

NextAssemble == ConvertAstSpan \/ ConvertRegexSpan \/ ConvertCharSpan

SpecAssemble == InitAssemble /\ [][NextAssemble]_vars

(***************************************************************************)
(* Claims on the example assembler                                         *)
(***************************************************************************)

Emitted == {examples[i] : i \in 1..Len(examples)}

ByteOrCharKinds ==
    {"ast_single_node", "ast_aligned_span", "dev_incomplete_line",
     "dev_bracket_content", "dev_post_comment", "dev_doc_comment", "char_random"}

Whole(ex) == ex.prefix \o ex.middle \o ex.suffix

MinWordsOf(kind) ==
    IF kind \in {"dev_incomplete_line", "dev_bracket_content",
                 "dev_post_comment", "dev_doc_comment"} THEN 1 ELSE 3

\* C3: every emitted example has a middle that is not blank and holds at
\* least W words, W = 1 for dev_ kinds and 3 for every other kind.
C3_MiddleHasWords ==
    \A ex \in Emitted :
        /\ \E i \in 1..Len(ex.middle) : ex.middle[i] \notin {" ", "\n", "\t"}
        /\ WordCount(ex.middle) >= MinWordsOf(ex.span_kind)

\* A dev_ example with a one-word middle and an AST example with exactly
\* three words were emitted by the same call.
C3_Witness ==
    /\ \E ex \in Emitted : ex.span_kind = "dev_incomplete_line" /\ WordCount(ex.middle) = 1
    /\ \E ex \in Emitted : ex.span_kind = "ast_single_node" /\ WordCount(ex.middle) = 3

(***************************************************************************)
(* generate/_quality.py: filter_low_quality_examples                       *)
(***************************************************************************)

\* the default of the min_middle_chars parameter
filter_min_middle_chars == 40

\* s.strip()
Strip(s) ==
    LET keep == {i \in 1..Len(s) : ~IsSpace(s[i])}
    IN  IF keep = {} THEN <<>>
        ELSE SubSeq(s, CHOOSE i \in keep : \A j \in keep : i <= j,
                       CHOOSE i \in keep : \A j \in keep : i >= j)

\* ex.prefix.rsplit("\n", 1)[-1] if ex.prefix else ""
PrefixTail(prefix) ==
    LET nls == {i \in 1..Len(prefix) : prefix[i] = "\n"}
    IN  IF nls = {} THEN prefix
        ELSE SliceFrom(prefix, CHOOSE i \in nls : \A j \in nls : i >= j)

\* ex.suffix.split("\n", 1)[0] if ex.suffix else ""
SuffixHead(suffix) ==
    LET nl == Find(suffix, <<"\n">>, 0)
    IN  IF nl < 0 THEN suffix ELSE SliceTo(suffix, nl)

\* \w of the regular expression, for the characters of the model's alphabet
IsWordChar(c) ==
    c \in {"a", "b", "c", "d", "e", "f", "g", "h", "i", "j", "k", "l", "m",
           "n", "o", "p", "q", "r", "s", "t", "u", "v", "w", "x", "y", "z",
           "A", "B", "C", "D", "E", "F", "G", "H", "I", "J", "K", "L", "M",
           "N", "O", "P", "Q", "R", "S", "T", "U", "V", "W", "X", "Y", "Z",
           "0", "1", "2", "3", "4", "5", "6", "7", "8", "9", "_", "E2"}

\* where \s* stops when it starts after p characters of the line
SkipSpace(line, p) ==
    CHOOSE q \in p..Len(line) :
        /\ \A k \in (p + 1)..q : IsSpace(line[k])
        /\ q = Len(line) \/ ~IsSpace(line[q + 1])

\* where a greedy \S* stops when it starts after p characters of the line
SkipNonSpace(line, p) ==
    CHOOSE q \in p..Len(line) :
        /\ \A k \in (p + 1)..q : ~IsSpace(line[k])
        /\ q = Len(line) \/ IsSpace(line[q + 1])

\* \b after a keyword that ends after p characters of the line
WordEnd(line, p) == p = Len(line) \/ ~IsWordChar(line[p + 1])

\* keyword\b at p
KeywordAt(line, kw, p) == StartsWithAt(line, kw, p) /\ WordEnd(line, p + Len(kw))

\* first\s+second\b at p
TwoWordsAt(line, first, second, p) ==
    /\ StartsWithAt(line, first, p)
    /\ SkipSpace(line, p + Len(first)) > p + Len(first)
    /\ KeywordAt(line, second, SkipSpace(line, p + Len(first)))

\* require\s*\( at p
RequireCallAt(line, p) ==
    /\ StartsWithAt(line, <<"r", "e", "q", "u", "i", "r", "e">>, p)
    /\ StartsWithAt(line, <<"(">>, SkipSpace(line, p + 7))

\* from\s+\S+\s+import\b at p: \S+ is followed by \s+, so it runs to the
\* next whitespace
FromImportAt(line, p) ==
    LET p1 == SkipSpace(line, p + 4)
        p2 == SkipNonSpace(line, p1)
        p3 == SkipSpace(line, p2)
    IN  /\ StartsWithAt(line, <<"f", "r", "o", "m">>, p)
        /\ p1 > p + 4 /\ p2 > p1 /\ p3 > p2
        /\ KeywordAt(line, <<"i", "m", "p", "o", "r", "t">>, p3)

\* (?:const|let|var)\s+\S+\s*=\s*require\s*\( at p: \S+ may give characters
\* back, so its end is any point of the run of non-whitespace
DeclRequireAt(line, p) ==
    \E kw \in {<<"c", "o", "n", "s", "t">>, <<"l", "e", "t">>, <<"v", "a", "r">>} :
        LET p1 == SkipSpace(line, p + Len(kw))
        IN  /\ StartsWithAt(line, kw, p)
            /\ p1 > p + Len(kw)
            /\ \E p2 \in (p1 + 1)..SkipNonSpace(line, p1) :
                   LET p3 == SkipSpace(line, p2)
                   IN  /\ StartsWithAt(line, <<"=">>, p3)
                       /\ RequireCallAt(line, SkipSpace(line, p3 + 1))

\* _IMPORT_LINE_RE.match(line)
ImportLineMatch(line) ==
    LET p == SkipSpace(line, 0)
    IN  \/ \E kw \in {<<"r", "e", "q", "u", "i", "r", "e", "_", "o", "n", "c", "e">>,
                      <<"r", "e", "q", "u", "i", "r", "e", "_", "r", "e", "l", "a", "t", "i", "v", "e">>,
                      <<"i", "n", "c", "l", "u", "d", "e", "_", "o", "n", "c", "e">>,
                      <<"i", "n", "c", "l", "u", "d", "e">>} :
               StartsWithAt(line, kw, p)
        \/ FromImportAt(line, p)
        \/ \E kw \in {<<"i", "m", "p", "o", "r", "t">>, <<"u", "s", "i", "n", "g">>,
                      <<"u", "s", "e">>, <<"l", "o", "a", "d">>,
                      <<"s", "o", "u", "r", "c", "e">>} :
               KeywordAt(line, kw, p)
        \/ TwoWordsAt(line, <<"e", "x", "t", "e", "r", "n">>, <<"c", "r", "a", "t", "e">>, p)
        \/ /\ StartsWithAt(line, <<"#">>, p)
           /\ KeywordAt(line, <<"i", "n", "c", "l", "u", "d", "e">>, SkipSpace(line, p + 1))
        \/ /\ StartsWithAt(line, <<"@">>, p)
           /\ \E kw \in {<<"i", "m", "p", "o", "r", "t">>, <<"u", "s", "e">>,
                         <<"f", "o", "r", "w", "a", "r", "d">>} :
                  KeywordAt(line, kw, p + 1)
        \/ DeclRequireAt(line, p)
        \/ RequireCallAt(line, p)

\* line 162-171: the full lines the middle takes part in
FullLines(ex) ==
    LET mid_lines == SplitNL(ex.middle)
    IN  [i \in 1..Len(mid_lines) |->
            (IF i = 1 THEN PrefixTail(ex.prefix) ELSE <<>>)
            \o mid_lines[i]
            \o (IF i = Len(mid_lines) THEN SuffixHead(ex.suffix) ELSE <<>>)]

\* line 172-173: non_empty and all(_IMPORT_LINE_RE.match(l) for l in non_empty)
ImportOnly(ex) ==
    LET full_lines == FullLines(ex)
        non_empty  == {i \in 1..Len(full_lines) : ~IsBlank(full_lines[i])}
    IN  non_empty # {} /\ \A i \in non_empty : ImportLineMatch(full_lines[i])

\* line 153: len(middle.strip()) < min_middle_chars
TooShort(ex) == Len(Strip(ex.middle)) < filter_min_middle_chars

\* line 183: the lines of the middle that are not blank
NonEmptyLines(ex) ==
    LET mid_lines == SplitNL(ex.middle)
    IN  {i \in 1..Len(mid_lines) : ~IsBlank(mid_lines[i])}

\* line 182: set(l.strip() for l in mid_lines if l.strip())
UniqueLines(ex) ==
    LET mid_lines == SplitNL(ex.middle)
    IN  {Strip(mid_lines[i]) : i \in NonEmptyLines(ex)}

\* line 180-184: len(unique) / total_non_empty < 0.5, for more than 2 lines
Repetitive(ex) ==
    /\ Len(SplitNL(ex.middle)) > 2
    /\ Cardinality(NonEmptyLines(ex)) > 0
    /\ 2 * Cardinality(UniqueLines(ex)) < Cardinality(NonEmptyLines(ex))


\* floor(10^6 * n * log2(n)) for n = 1..96, the longest middle of the model
NLog2N ==
    << 0, 2000000, 4754887, 8000000, 11609640, 15509775, 19651484, 24000000,
       28529325, 33219280, 38053747, 43019550, 48105716, 53302968, 58603358, 64000000,
       69486868, 75058650, 80710622, 86438561, 92238665, 98107495, 104041924, 110039100,
       116096404, 122211432, 128381962, 134605937, 140881448, 147206717, 153580085, 160000000,
       166465005, 172973736, 179524905, 186117300, 192749774, 199421245, 206130686, 212877123,
       219659632, 226477331, 233329384, 240214991, 247133389, 254083849, 261065676, 268078200,
       275120782, 282192809, 289293692, 296422865, 303579784, 310763925, 317974784, 325211875,
       332474730, 339762897, 347075939, 354413435, 361774977, 369160171, 376568635, 384000000,
       391453907, 398930011, 406427975, 413947473, 421488187, 429049811, 436632045, 444234600,
       451857192, 459499549, 467161401, 474842491, 482542563, 490261373, 497998679, 505754247,
       513527850, 521319264, 529128272, 536954663, 544798229, 552658768, 560536084, 568429982,
       576340275, 584266778, 592209312, 600167699, 608141769, 616131352, 624136282, 632156400 >>

\* text.count(c)
CharCount(text, c) == Cardinality({i \in 1..Len(text) : text[i] = c})

RECURSIVE SumNLog2N(_, _)
SumNLog2N(text, chars) ==
    IF chars = {} THEN 0
    ELSE LET c == CHOOSE c \in chars : TRUE
         IN  NLog2N[CharCount(text, c)] + SumNLog2N(text, chars \ {c})

\* _char_entropy(text) < 2.0.  With T = len(text) and n_c the count of c,
\* the entropy is log2(T) - sum(n_c * log2(n_c)) / T, so it is below 2
\* exactly when sum(n_c * log2(n_c)) > T * log2(T) - 2 * T; the empty
\* text has entropy 0.0.  The comparison is made in millionths.
EntropyBelowTwo(text) ==
    \/ text = <<>>
    \/ SumNLog2N(text, {text[i] : i \in 1..Len(text)})
           > NLog2N[Len(text)] - 2 * 1000000 * Len(text)

\* line 200-203: the lines l with l.strip().startswith(("//", "/*", "*", "#"))
CommentLines(ex) ==
    LET mid_lines == SplitNL(ex.middle)
    IN  {i \in 1..Len(mid_lines) :
            \E mark \in {<<"/", "/">>, <<"/", "*">>, <<"*">>, <<"#">>} :
                StartsWithAt(Strip(mid_lines[i]), mark, 0)}

\* line 204: comment_lines / max(1, len(mid_lines)) > 0.8
CommentOnly(ex) ==
    5 * Cardinality(CommentLines(ex)) > 4 * Max(1, Len(SplitNL(ex.middle)))

\* line 211-214: total_len > 0 and (ratio < 0.03 or ratio > 0.80)
BadLengthRatio(ex) ==
    LET total_len == Len(ex.prefix) + Len(ex.middle) + Len(ex.suffix)
    IN  /\ total_len > 0
        /\ \/ 100 * Len(ex.middle) < 3 * total_len
           \/ 5 * Len(ex.middle) > 4 * total_len

\* A plausible slip: skip_quality_filters is never consulted.
Exempt_Never(ex, rule) == FALSE

\* "<rule>" in ex.skip_quality_filters
Exempt(ex, rule) == rule \in ex.skip_quality_filters

\* A plausible slip: the import check runs before the length check.
RejectingCheck_ImportFirst(ex) ==
    IF ~Exempt(ex, "import") /\ ImportOnly(ex) THEN "import"
    ELSE IF ~Exempt(ex, "min_length") /\ TooShort(ex) THEN "min_length"
    ELSE IF ~Exempt(ex, "repetition") /\ Repetitive(ex) THEN "repetition"
    ELSE IF ~Exempt(ex, "entropy") /\ EntropyBelowTwo(ex.middle) THEN "entropy"
    ELSE IF ~Exempt(ex, "comment_only") /\ CommentOnly(ex) THEN "comment_only"
    ELSE IF ~Exempt(ex, "length_ratio") /\ BadLengthRatio(ex) THEN "length_ratio"
    ELSE "none"

\* line 147-219: the check whose branch reaches `continue` for ex, in the
\* order of the code; "none" when the loop body reaches kept.append(ex)
RejectingCheck(ex) ==
    IF ~Exempt(ex, "min_length") /\ TooShort(ex) THEN "min_length"
    ELSE IF ~Exempt(ex, "import") /\ ImportOnly(ex) THEN "import"
    ELSE IF ~Exempt(ex, "repetition") /\ Repetitive(ex) THEN "repetition"
    ELSE IF ~Exempt(ex, "entropy") /\ EntropyBelowTwo(ex.middle) THEN "entropy"
    ELSE IF ~Exempt(ex, "comment_only") /\ CommentOnly(ex) THEN "comment_only"
    ELSE IF ~Exempt(ex, "length_ratio") /\ BadLengthRatio(ex) THEN "length_ratio"
    ELSE "none"

\* A plausible slip: the count of a kind is set, not incremented.
CountRejected_Set(by_kind, kind) ==
    IF kind \in DOMAIN by_kind THEN [by_kind EXCEPT ![kind] = 1]
    ELSE [k \in DOMAIN by_kind \cup {kind} |-> IF k = kind THEN 1 ELSE by_kind[k]]

\* rejected_by_kind[kind] = rejected_by_kind.get(kind, 0) + 1
CountRejected(by_kind, kind) ==
    IF kind \in DOMAIN by_kind THEN [by_kind EXCEPT ![kind] = @ + 1]
    ELSE [k \in DOMAIN by_kind \cup {kind} |-> IF k = kind THEN 1 ELSE by_kind[k]]

(***************************************************************************)
(* SpecFilter: one call of filter_low_quality_examples                     *)
(***************************************************************************)

\* text repeated n times
Repeat(text, n) == [i \in 1..(n * Len(text)) |-> text[((i - 1) % Len(text)) + 1]]

FilterExample(kind, prefix, middle, suffix, skip) ==
    [prefix |-> prefix, middle |-> middle, suffix |-> suffix,
     cross_file_context |-> <<>>, span_kind |-> kind,
     skip_quality_filters |-> skip]

\* a loop body in the middle of a function
ExGood ==
    FilterExample("ast_single_node",
        <<"f", "u", "n", "c", "t", "i", "o", "n", " ", "r", "u", "n", "(", "$", "i", "t", "e", "m", "s",
          ")", " ", "{", "\n">>,
        <<" ", " ", " ", " ", "f", "o", "r", "e", "a", "c", "h", " ", "(", "$", "i", "t", "e", "m", "s",
          " ", "a", "s", " ", "$", "k", " ", "=", ">", " ", "$", "v", ")", " ", "{", "\n", " ", " ", " ",
          " ", " ", " ", " ", " ", "$", "t", "h", "i", "s", "-", ">", "p", "u", "t", "(", "$", "k", ",",
          " ", "$", "v", ")", ";", "\n", " ", " ", " ", " ", "}">>,
        <<"\n", " ", " ", " ", " ", "r", "e", "t", "u", "r", "n", " ", "t", "r", "u", "e", ";", "\n",
          "}", "\n">>,
        {})

\* a 12-character statement
ExShort ==
    FilterExample("char_random",
        <<"$", "a", " ", "=", " ", "1", ";", "\n">>,
        <<"$", "b", " ", "=", " ", "$", "a", " ", "+", " ", "2", ";">>,
        <<"\n", "$", "c", " ", "=", " ", "3", ";", "\n">>,
        {})

\* the 29-character `use` statement of the specification's scenario
ExUseShort ==
    FilterExample("ast_single_node",
        <<"<", "?", "p", "h", "p", "\n", "n", "a", "m", "e", "s", "p", "a", "c", "e", " ", "A", "p", "p",
          ";", "\n", "\n">>,
        <<"u", "s", "e", " ", "A", "p", "p", "\\", "S", "e", "r", "v", "i", "c", "e", "s", "\\", "U",
          "s", "e", "r", "S", "e", "r", "v", "i", "c", "e", ";">>,
        <<"\n", "\n", "c", "l", "a", "s", "s", " ", "A", " ", "{", "}", "\n">>,
        {})

\* a 52-character `use` statement
ExUseLong ==
    FilterExample("ast_single_node",
        <<"<", "?", "p", "h", "p", "\n", "n", "a", "m", "e", "s", "p", "a", "c", "e", " ", "A", "p", "p",
          ";", "\n", "\n">>,
        <<"u", "s", "e", " ", "A", "p", "p", "\\", "S", "e", "r", "v", "i", "c", "e", "s", "\\", "B",
          "i", "l", "l", "i", "n", "g", "\\", "I", "n", "v", "o", "i", "c", "e", "R", "e", "p", "o", "s",
          "i", "t", "o", "r", "y", "I", "n", "t", "e", "r", "f", "a", "c", "e", ";">>,
        <<"\n", "\n", "c", "l", "a", "s", "s", " ", "A", " ", "{", "}", "\n">>,
        {})

\* the tail of a `from ... import` line: only the glued line is an import
ExFromImport ==
    FilterExample("dev_incomplete_line",
        <<"i", "m", "p", "o", "r", "t", " ", "o", "s", "\n", "f", "r", "o", "m", " ", "c", "o", "l", "l",
          "e", "c", "t", "i", "o", "n", "s", ".", "a", "b", "c", " ", "i", "m", "p", "o", "r", "t", " ">>,
        <<"M", "a", "p", "p", "i", "n", "g", ",", " ", "S", "e", "q", "u", "e", "n", "c", "e", ",", " ",
          "I", "t", "e", "r", "a", "b", "l", "e", ",", " ", "I", "t", "e", "r", "a", "t", "o", "r", ",",
          " ", "C", "a", "l", "l", "a", "b", "l", "e">>,
        <<"\n", "\n", "x", " ", "=", " ", "1", "\n">>,
        {})

\* the long `use` statement, exempt from the import check
ExUseExempt ==
    FilterExample("dev_incomplete_line",
        <<"<", "?", "p", "h", "p", "\n", "n", "a", "m", "e", "s", "p", "a", "c", "e", " ", "A", "p", "p",
          ";", "\n", "\n">>,
        <<"u", "s", "e", " ", "A", "p", "p", "\\", "S", "e", "r", "v", "i", "c", "e", "s", "\\", "B",
          "i", "l", "l", "i", "n", "g", "\\", "I", "n", "v", "o", "i", "c", "e", "R", "e", "p", "o", "s",
          "i", "t", "o", "r", "y", "I", "n", "t", "e", "r", "f", "a", "c", "e", ";">>,
        <<"\n", "\n", "c", "l", "a", "s", "s", " ", "A", " ", "{", "}", "\n">>,
        {"import"})

\* four identical lines
ExRepeat ==
    FilterExample("ast_aligned_span",
        <<"f", "u", "n", "c", "t", "i", "o", "n", " ", "f", "(", ")", " ", "{", "\n">>,
        <<" ", " ", " ", " ", "l", "o", "g", "(", "$", "x", ",", " ", "$", "y", ")", ";", "\n", " ", " ",
          " ", " ", "l", "o", "g", "(", "$", "x", ",", " ", "$", "y", ")", ";", "\n", " ", " ", " ", " ",
          "l", "o", "g", "(", "$", "x", ",", " ", "$", "y", ")", ";", "\n", " ", " ", " ", " ", "l", "o",
          "g", "(", "$", "x", ",", " ", "$", "y", ")", ";">>,
        <<"\n", "}", "\n", "\n", "f", "(", ")", ";", "\n">>,
        {})

\* four lines, two of them distinct: exactly half unique
ExHalfUnique ==
    FilterExample("ast_aligned_span",
        <<"f", "u", "n", "c", "t", "i", "o", "n", " ", "f", "(", ")", " ", "{", "\n">>,
        <<" ", " ", " ", " ", "l", "o", "g", "(", "$", "x", ",", " ", "$", "y", ")", ";", "\n", " ", " ",
          " ", " ", "l", "o", "g", "(", "$", "x", ",", " ", "$", "y", ")", ";", "\n", " ", " ", " ", " ",
          "l", "o", "g", "(", "$", "x", ",", " ", "$", "y", ")", ";", "\n", " ", " ", " ", " ", "l", "o",
          "g", "(", "$", "x", ",", " ", "$", "z", ")", ";">>,
        <<"\n", "}", "\n", "\n", "f", "(", ")", ";", "\n">>,
        {})

\* three distinct characters, entropy 1.23 bits
ExLowEntropy ==
    FilterExample("char_random",
        <<"$", "s", " ", "=", " ", "'">>,
        <<"a", "a", "a", "a", "a", "a", "a", "a", "a", "a", "a", "a", "a", "a", "a", "a", "a", "a", "a",
          "a", "b", "b", "b", "b", "b", "b", "b", "b", "b", "b", "b", "b", "b", "b", "b", "b", "b", "b",
          "b", "b", "c", "c">>,
        <<"'", ";", "\n", "e", "c", "h", "o", " ", "$", "s", ";", "\n">>,
        {})

\* four equiprobable characters, entropy exactly 2.0 bits
ExEntropyTwo ==
    FilterExample("char_random",
        <<"$", "s", " ", "=", " ", "'">>,
        <<"a", "b", "c", "d", "a", "b", "c", "d", "a", "b", "c", "d", "a", "b", "c", "d", "a", "b", "c",
          "d", "a", "b", "c", "d", "a", "b", "c", "d", "a", "b", "c", "d", "a", "b", "c", "d", "a", "b",
          "c", "d", "a", "b", "c", "d", "a", "b", "c", "d", "a", "b", "c", "d", "a", "b", "c", "d", "a",
          "b", "c", "d", "a", "b", "c", "d">>,
        <<"'", ";", "\n", "e", "c", "h", "o", " ", "s", "t", "r", "l", "e", "n", "(", "$", "s", ")", ";",
          "\n">>,
        {})

\* four comment lines of four
ExComments ==
    FilterExample("dev_post_comment",
        <<"f", "u", "n", "c", "t", "i", "o", "n", " ", "g", "(", ")", " ", "{", "\n">>,
        <<" ", " ", " ", " ", "/", "/", " ", "l", "o", "a", "d", " ", "t", "h", "e", " ", "u", "s", "e",
          "r", "\n", " ", " ", " ", " ", "/", "/", " ", "c", "h", "e", "c", "k", " ", "t", "h", "e", " ",
          "r", "o", "l", "e", "\n", " ", " ", " ", " ", "#", " ", "t", "h", "e", "n", " ", "s", "a", "v",
          "e", " ", "i", "t", "\n", " ", " ", " ", " ", "*", " ", "a", "n", "d", " ", "r", "e", "t", "u",
          "r", "n">>,
        <<"\n", " ", " ", " ", " ", "r", "e", "t", "u", "r", "n", " ", "1", ";", "\n", "}", "\n">>,
        {})

\* a doc comment as the doc-comment generator emits it, exempt from comment_only
ExDocComment ==
    FilterExample("dev_doc_comment",
        <<"<", "?", "p", "h", "p", "\n">>,
        <<"/", "*", "*", "\n", " ", "*", " ", "F", "i", "n", "d", " ", "t", "h", "e", " ", "a", "c", "t",
          "i", "v", "e", " ", "u", "s", "e", "r", "s", ".", "\n", " ", "*", " ", "@", "r", "e", "t", "u",
          "r", "n", " ", "a", "r", "r", "a", "y", "\n", " ", "*", "/">>,
        <<"\n", "f", "u", "n", "c", "t", "i", "o", "n", " ", "f", "i", "n", "d", "A", "c", "t", "i", "v",
          "e", "(", ")", " ", "{", "}", "\n">>,
        {"comment_only"})

\* four comment lines of five: exactly 80%
ExFourOfFive ==
    FilterExample("ast_aligned_span",
        <<"f", "u", "n", "c", "t", "i", "o", "n", " ", "h", "(", ")", " ", "{", "\n">>,
        <<" ", " ", " ", " ", "/", "/", " ", "f", "i", "r", "s", "t", " ", "s", "t", "e", "p", " ", "h",
          "e", "r", "e", "\n", " ", " ", " ", " ", "/", "/", " ", "s", "e", "c", "o", "n", "d", " ", "s",
          "t", "e", "p", "\n", " ", " ", " ", " ", "/", "/", " ", "t", "h", "i", "r", "d", "\n", " ",
          " ", " ", " ", "/", "/", " ", "f", "o", "u", "r", "t", "h", "\n", " ", " ", " ", " ", "$", "d",
          "o", "n", "e", " ", "=", " ", "r", "u", "n", "(", ")", ";">>,
        <<"\n", " ", " ", " ", " ", "r", "e", "t", "u", "r", "n", " ", "$", "d", "o", "n", "e", ";",
          "\n", "}", "\n">>,
        {})

\* the middle is the whole file
ExWholeFile ==
    FilterExample("ast_single_node",
        <<>>,
        <<"f", "u", "n", "c", "t", "i", "o", "n", " ", "w", "h", "o", "l", "e", "(", "$", "a", ",", " ",
          "$", "b", ")", " ", "{", " ", "r", "e", "t", "u", "r", "n", " ", "$", "a", " ", "*", " ", "$",
          "b", " ", "+", " ", "1", ";", " ", "}">>,
        <<>>,
        {})

\* 12 characters of 975, exempt from min_length
ExTiny ==
    FilterExample("dev_bracket_content",
        Repeat(<<"p", "a", "d", " ">>, 120) \o <<"\n">>,
        <<"$", "x", ",", " ", "$", "y", ",", " ", "$", "z", "e", "d">>,
        <<"\n">> \o Repeat(<<"p", "a", "d", " ">>, 120) \o <<"\n">>,
        {"min_length"})

\* a blank middle, exempt from min_length and import
ExBlankExempt ==
    FilterExample("dev_bracket_content",
        <<"c", "a", "l", "l", "(">>,
        <<" ", " ", " ", " ">>,
        <<")", ";", "\n">>,
        {"import", "min_length"})

FilterPool ==
    {ExGood, ExShort, ExUseShort, ExUseLong, ExFromImport,
     ExUseExempt, ExRepeat, ExHalfUnique, ExLowEntropy, ExEntropyTwo,
     ExComments, ExDocComment, ExFourOfFive, ExWholeFile, ExTiny,
     ExBlankExempt}

\* Longest input list
MaxExamples == 2

FilterInputs == UNION {[1..n -> FilterPool] : n \in 0..MaxExamples}

InitFilter ==
    /\ flt_examples \in FilterInputs
    /\ flt_next = 0
    /\ kept = <<>>
    /\ rejected_examples = <<>>
    /\ rejected_by_kind = <<>>
    /\ rejected_check = <<>>
    /\ flt_pc = "loop"
    /\ FltRestIdle

\* one pass of the loop of line 147-219
FilterStep ==
    /\ flt_pc = "loop" /\ flt_next < Len(flt_examples)
    /\ LET ex    == flt_examples[flt_next + 1]
           check == RejectingCheck(ex)
       IN  IF check = "none"
             THEN /\ kept' = Append(kept, ex)
                  /\ UNCHANGED <<rejected_examples, rejected_by_kind, rejected_check>>
             ELSE /\ rejected_examples' = Append(rejected_examples, ex)
                  /\ rejected_by_kind' = CountRejected(rejected_by_kind, ex.span_kind)
                  /\ rejected_check' = Append(rejected_check, check)
                  /\ UNCHANGED kept
    /\ flt_next' = flt_next + 1
    /\ UNCHANGED <<flt_examples, flt_pc>>
    /\ UNCHANGED fltRest

\* line 221: return kept, rejected_examples, rejected_by_kind
FilterReturn ==
    /\ flt_pc = "loop" /\ flt_next = Len(flt_examples)
    /\ flt_pc' = "returned"
    /\ UNCHANGED <<flt_examples, flt_next, kept, rejected_examples,
                   rejected_by_kind, rejected_check>>
    /\ UNCHANGED fltRest

NextFilter == FilterStep \/ FilterReturn

SpecFilter == InitFilter /\ [][NextFilter]_vars

(***************************************************************************)
(* generate/_fim.py: rebalance_examples                                    *)
(***************************************************************************)

\* TARGET_RATIOS, in hundredths
TARGET_RATIOS == [ast |-> 66, dev |-> 22, char |-> 12]

\* the keys of buckets, in the order the dict is built and read
Categories == <<"ast", "dev", "char">>

\* _categorize: kind.startswith("ast_"), kind.startswith("dev_"), else "char"
categorize(kind) ==
    IF kind \in {"ast_single_node", "ast_aligned_span"} THEN "ast"
    ELSE IF kind \in {"dev_incomplete_line", "dev_bracket_content",
                      "dev_post_comment", "dev_doc_comment"} THEN "dev"
    ELSE "char"

\* line 40-42: buckets[cat]
Bucket(exs, cat) == SelectSeq(exs, LAMBDA e : categorize(e.span_kind) = cat)

\* line 47: int(total * ratio)
RawTarget(total, cat) == (total * TARGET_RATIOS[cat]) \div 100

\* line 51: the categories with fewer examples than their raw target
UnderCats(exs) ==
    {Categories[i] : i \in {j \in 1..3 :
        Len(Bucket(exs, Categories[j])) < RawTarget(Len(exs), Categories[j])}}

\* line 55: the categories eligible for downsampling
OverCats(exs) == {Categories[i] : i \in 1..3} \ UnderCats(exs)

RECURSIVE SumOver(_, _)
SumOver(S, f) ==
    IF S = {} THEN 0
    ELSE LET x == CHOOSE x \in S : TRUE IN f[x] + SumOver(S \ {x}, f)

\* line 52: sum(max(0, v) for v in under.values())
Shortfall(exs) ==
    SumOver(UnderCats(exs),
            [cat \in UnderCats(exs) |->
                RawTarget(Len(exs), cat) - Len(Bucket(exs, cat))])

\* line 56: over_ratio_sum, in hundredths
OverRatioSum(exs) == SumOver(OverCats(exs), TARGET_RATIOS)

\* A plausible slip: the shortfall is not redistributed.
Target_NoExtra(exs, cat) ==
    IF cat \in UnderCats(exs) THEN Len(Bucket(exs, cat))
    ELSE RawTarget(Len(exs), cat)

\* line 59-65: targets[cat].  int(shortfall * ratio / over_ratio_sum) is
\* computed in floating point; for lists of up to 13 examples it is the
\* integer quotient below.
Target(exs, cat) ==
    IF cat \in UnderCats(exs) THEN Len(Bucket(exs, cat))
    ELSE RawTarget(Len(exs), cat)
         + (IF OverRatioSum(exs) > 0
              THEN (Shortfall(exs) * TARGET_RATIOS[cat]) \div OverRatioSum(exs)
              ELSE 0)

\* A plausible slip: random.choices, which draws with replacement.
RandomSample_WithReplacement(items, k) ==
    {[i \in 1..k |-> items[pick[i]]] : pick \in [1..k -> 1..Len(items)]}

\* random.sample(items, k): k of the items, without replacement, in any order
RandomSample(items, k) ==
    {[i \in 1..k |-> items[pick[i]]] :
        pick \in {p \in [1..k -> 1..Len(items)] :
                     \A i, j \in 1..k : i # j => p[i] # p[j]}}

\* line 69-73: what result.extend receives for one category
Downsampled(exs, cat) ==
    LET items == Bucket(exs, cat)
    IN  IF Len(items) <= Target(exs, cat) THEN {items}
        ELSE RandomSample(items, Target(exs, cat))

(***************************************************************************)
(* SpecRebalance: one call of rebalance_examples                           *)
(***************************************************************************)

\* Longest input list
MaxN == 5

\* the span kinds of the input: one per category, and a line-locator kind
RebalanceKinds ==
    {"ast_aligned_span", "dev_bracket_content", "char_random", "function_body"}

\* the input lists: example i is the i-th object of the list
RebalanceInputs ==
    UNION {{[i \in 1..n |-> [id |-> i, span_kind |-> kinds[i]]] :
               kinds \in [1..n -> RebalanceKinds]} : n \in 0..MaxN}

InitRebalance ==
    /\ reb_examples \in RebalanceInputs
    /\ reb_result = <<>>
    /\ reb_pc = "called"
    /\ RebRestIdle

\* rebalance_examples(examples)
Rebalance ==
    /\ reb_pc = "called"
    /\ IF reb_examples = <<>>
         THEN reb_result' = reb_examples
         ELSE \E a \in Downsampled(reb_examples, "ast") :
              \E d \in Downsampled(reb_examples, "dev") :
              \E c \in Downsampled(reb_examples, "char") :
                  reb_result' = a \o d \o c
    /\ reb_pc' = "returned"
    /\ UNCHANGED reb_examples
    /\ UNCHANGED rebRest

NextRebalance == Rebalance

SpecRebalance == InitRebalance /\ [][NextRebalance]_vars

(***************************************************************************)
(* Claims on the quality filter                                            *)
(***************************************************************************)

Rules == {"min_length", "import", "repetition", "entropy", "comment_only", "length_ratio"}

\* the lines of prefix-tail + middle + suffix-head
TouchedLines(ex) ==
    SplitNL(PrefixTail(ex.prefix) \o ex.middle \o SuffixHead(ex.suffix))

\* every touched line that is not blank is an import statement
AllImports(ex) ==
    LET ls == TouchedLines(ex)
    IN  /\ \E i \in 1..Len(ls) : ~IsBlank(ls[i])
        /\ \A i \in 1..Len(ls) : ~IsBlank(ls[i]) => ImportLineMatch(ls[i])

\* the six rules as section 4.I of the specification states them
Passes(rule, ex) ==
    LET m     == Len(ex.middle)
        total == Len(ex.prefix) + Len(ex.middle) + Len(ex.suffix)
        lines == SplitNL(ex.middle)
    IN  CASE rule = "min_length"   -> Len(Strip(ex.middle)) >= 40
          [] rule = "import"       -> ~AllImports(ex)
          [] rule = "repetition"   ->
                 2 * Cardinality(UniqueLines(ex)) >= Cardinality(NonEmptyLines(ex))
          [] rule = "entropy"      -> ~EntropyBelowTwo(ex.middle)
          [] rule = "comment_only" -> 5 * Cardinality(CommentLines(ex)) <= 4 * Len(lines)
          [] rule = "length_ratio" ->
                 total = 0 \/ (100 * m >= 3 * total /\ 5 * m <= 4 * total)

\* the rules each example of the pool fails, and whether it is the import case
FailedRules == [ex \in FilterPool |-> {rule \in Rules : ~Passes(rule, ex)}]

Processed == {flt_examples[i] : i \in 1..flt_next}

KeptSet == {kept[i] : i \in 1..Len(kept)}

\* C6: every kept example passes each of the six rules that is not named in
\* its skip_quality_filters, and every example that fails none but exempted
\* rules is kept.
C6_KeptPassNonExempt ==
    /\ \A ex \in KeptSet : FailedRules[ex] \subseteq ex.skip_quality_filters
    /\ \A ex \in Processed :
           FailedRules[ex] \subseteq ex.skip_quality_filters => ex \in KeptSet

\* The call returned with a kept doc comment that fails the comment rule it
\* is exempt from, next to a kept example with exactly 80% comment lines.
C6_Witness ==
    /\ flt_pc = "returned"
    /\ ExDocComment \in KeptSet /\ FailedRules[ExDocComment] = {"comment_only"}
    /\ ExFourOfFive \in KeptSet

\* the elements of s at the positions of idx, in order
RECURSIVE Project(_, _, _)
Project(s, idx, i) ==
    IF i > Len(s) THEN <<>>
    ELSE (IF i \in idx THEN <<s[i]>> ELSE <<>>) \o Project(s, idx, i + 1)

AllKinds == {"ast_single_node", "ast_aligned_span", "dev_incomplete_line",
             "dev_bracket_content", "dev_post_comment", "dev_doc_comment",
             "char_random", "function_body", "expression", "block", "lines"}

Histogram(kind) == IF kind \in DOMAIN rejected_by_kind THEN rejected_by_kind[kind] ELSE 0

\* C7: the examples processed so far are split between kept and
\* rejected_examples, each input in exactly one of them, both in input
\* order, and for every kind the histogram holds the number of rejected
\* examples of that kind.
C7_Partition ==
    /\ \E K \in SUBSET (1..flt_next) :
           /\ kept = Project(flt_examples, K, 1)
           /\ rejected_examples = Project(flt_examples, (1..flt_next) \ K, 1)
    /\ \A kind \in AllKinds \cup DOMAIN rejected_by_kind :
           Histogram(kind) =
               Cardinality({i \in 1..Len(rejected_examples) :
                               rejected_examples[i].span_kind = kind})

\* The call returned after rejecting two examples of one kind and keeping
\* one of another.
C7_Witness ==
    /\ flt_pc = "returned"
    /\ Len(rejected_examples) = 2
    /\ rejected_examples[1].span_kind = rejected_examples[2].span_kind
    /\ rejected_examples[1] # rejected_examples[2]

\* the claim's case: not exempt from the import rule, all touched lines imports
ImportCase(ex) == "import" \notin ex.skip_quality_filters /\ "import" \in FailedRules[ex]

\* C8 as stated: an import-only example that is not exempt from the import
\* rule is rejected, and the check that rejects it is the import check.
C8_Original ==
    /\ \A ex \in KeptSet : ~ImportCase(ex)
    /\ \A i \in 1..Len(rejected_examples) :
           ImportCase(rejected_examples[i]) => rejected_check[i] = "import"

\* C8 amended: such an example is rejected; the check that rejects it is
\* min_length when its stripped middle is shorter than 40 characters and it
\* is not exempt from min_length, and the import check otherwise.
C8_ImportOnlyRejected ==
    /\ \A ex \in KeptSet : ~ImportCase(ex)
    /\ \A i \in 1..Len(rejected_examples) :
           LET ex == rejected_examples[i]
           IN  ImportCase(ex) =>
                   rejected_check[i] =
                       IF "min_length" \notin ex.skip_quality_filters
                            /\ Len(Strip(ex.middle)) < 40
                         THEN "min_length" ELSE "import"

\* The 29-character use statement was rejected by min_length and the glued
\* from-import line by the import check, in one call.
C8_Witness ==
    /\ flt_pc = "returned"
    /\ rejected_examples = <<ExUseShort, ExFromImport>>
    /\ rejected_check = <<"min_length", "import">>

(***************************************************************************)
(* Claims on the rebalancer                                                *)
(***************************************************************************)

InCount(cat) == Len(Bucket(reb_examples, cat))

OutCount(cat) == Len(Bucket(reb_result, cat))

CategorySet == {"ast", "dev", "char"}

\* C9: every returned example is an input example, none is returned twice,
\* and no category has more examples in the result than in the input.
C9_DownsampleOnly ==
    reb_pc = "returned" =>
        /\ \A i \in 1..Len(reb_result) :
               \E j \in 1..Len(reb_examples) : reb_result[i] = reb_examples[j]
        /\ \A i, j \in 1..Len(reb_result) : i # j => reb_result[i] # reb_result[j]
        /\ \A cat \in CategorySet : OutCount(cat) <= InCount(cat)

\* Five char examples were downsampled to four.
C9_Witness ==
    /\ reb_pc = "returned"
    /\ InCount("char") = 5
    /\ OutCount("char") = 4

Abs(x) == IF x < 0 THEN 0 - x ELSE x

Floor(cat) == (Len(reb_examples) * TARGET_RATIOS[cat]) \div 100

\* C10 as stated: each category's emitted count is within 1 of its target
\* ratio (of the input count N, or of the emitted count), or is the full
\* population of a category with fewer than floor(N * ratio) examples.
C10_Original ==
    reb_pc = "returned" =>
        \A cat \in CategorySet :
            \/ Abs(OutCount(cat) - Floor(cat)) <= 1
            \/ Abs(100 * OutCount(cat) - TARGET_RATIOS[cat] * Len(reb_result)) <= 100
            \/ InCount(cat) < Floor(cat) /\ OutCount(cat) = InCount(cat)

\* the deficits of the under-represented categories, summed
Deficit ==
    SumOver({cat \in CategorySet : InCount(cat) < Floor(cat)},
            [cat \in CategorySet |-> Floor(cat) - InCount(cat)])

\* the ratios of the other categories, summed, in hundredths
OtherRatios == SumOver({cat \in CategorySet : InCount(cat) >= Floor(cat)}, TARGET_RATIOS)

\* C10 amended: a category with fewer than floor(N * ratio) examples is
\* emitted in full; every other category is emitted up to floor(N * ratio)
\* + floor(deficit * ratio / R), deficit being the summed shortfall of the
\* under-represented categories and R the summed ratios of the others.
C10_AdjustedTargets ==
    reb_pc = "returned" =>
        \A cat \in CategorySet :
            IF InCount(cat) < Floor(cat)
              THEN OutCount(cat) = InCount(cat)
              ELSE OutCount(cat) =
                       Min(InCount(cat),
                           Floor(cat) + (Deficit * TARGET_RATIOS[cat]) \div OtherRatios)

\* Five char examples and nothing else: floor(5 * 0.12) = 0, yet four are
\* emitted, the whole deficit of ast and dev.
C10_Witness ==
    /\ reb_pc = "returned"
    /\ InCount("char") = 5
    /\ Floor("char") = 0
    /\ Deficit = 4
    /\ OutCount("char") = 4

(***************************************************************************)
(* generate/_cli.py: generate_all_examples                                 *)
(***************************************************************************)

\* What a source file holds for the loop: whether read_text succeeds, the
\* number of lines of its text, whether compute_complexity_score or
\* generate_fim_examples raises on it, its complexity score and the number
\* of examples generate_fim_examples returns for it.
SourceFile(readable, nlines, raises, score, nexamples) ==
    [readable |-> readable, nlines |-> nlines, raises |-> raises,
     score |-> score, nexamples |-> nexamples]

FileUnreadable == SourceFile(FALSE, 0, FALSE, 0, 0)

FileSmall == SourceFile(TRUE, 9, FALSE, 7, 1)

FileTenLines == SourceFile(TRUE, 10, FALSE, 3, 1)

FileGood == SourceFile(TRUE, 40, FALSE, 5, 2)

FileRaising == SourceFile(TRUE, 40, TRUE, 5, 2)

SourceFiles == {FileUnreadable, FileSmall, FileTenLines, FileGood, FileRaising}

\* Longest list of source files
MaxFiles == 3

\* line 139: len(source.split("\n")) < 10
TooSmall(f) == f.nlines < 10

\* line 147-162: the examples of file number i, each with the file's
\* complexity score
FileExamples(i, f) ==
    [k \in 1..f.nexamples |->
        [filepath |-> i, index |-> k, complexity_score |-> f.score]]

\* file_complexity[rel_path] = score
SetScore(scores, path, score) ==
    [p \in DOMAIN scores \cup {path} |-> IF p = path THEN score ELSE scores[p]]

InitGenerate ==
    /\ gen_files \in UNION {[1..n -> SourceFiles] : n \in 0..MaxFiles}
    /\ gen_next = 0
    /\ all_examples = <<>>
    /\ file_complexity = <<>>
    /\ gen_pc = "loop"
    /\ GenRestIdle

\* line 132-136: read_text raises; the except branch prints and continues
SkipUnreadable ==
    /\ gen_pc = "loop" /\ gen_next < Len(gen_files)
    /\ ~gen_files[gen_next + 1].readable
    /\ gen_next' = gen_next + 1
    /\ UNCHANGED <<gen_files, all_examples, file_complexity, gen_pc>>
    /\ UNCHANGED genRest

\* line 139-140: fewer than 10 lines
SkipSmall ==
    /\ gen_pc = "loop" /\ gen_next < Len(gen_files)
    /\ gen_files[gen_next + 1].readable
    /\ TooSmall(gen_files[gen_next + 1])
    /\ gen_next' = gen_next + 1
    /\ UNCHANGED <<gen_files, all_examples, file_complexity, gen_pc>>
    /\ UNCHANGED genRest

\* line 143-164: the file's score is recorded and its examples are appended
GenerateFile ==
    /\ gen_pc = "loop" /\ gen_next < Len(gen_files)
    /\ LET f == gen_files[gen_next + 1]
       IN  /\ f.readable /\ ~TooSmall(f) /\ ~f.raises
           /\ file_complexity' = SetScore(file_complexity, gen_next + 1, f.score)
           /\ all_examples' = all_examples \o FileExamples(gen_next + 1, f)
    /\ gen_next' = gen_next + 1
    /\ UNCHANGED <<gen_files, gen_pc>>
    /\ UNCHANGED genRest

\* line 144-158 stand outside the try of line 132: an exception raised by
\* compute_complexity_score or generate_fim_examples leaves the loop and
\* the function
RaiseInFile ==
    /\ gen_pc = "loop" /\ gen_next < Len(gen_files)
    /\ LET f == gen_files[gen_next + 1]
       IN  f.readable /\ ~TooSmall(f) /\ f.raises
    /\ gen_pc' = "raised"
    /\ UNCHANGED <<gen_files, gen_next, all_examples, file_complexity>>
    /\ UNCHANGED genRest

\* line 166: return all_examples, file_complexity
ReturnExamples ==
    /\ gen_pc = "loop" /\ gen_next = Len(gen_files)
    /\ gen_pc' = "returned"
    /\ UNCHANGED <<gen_files, gen_next, all_examples, file_complexity>>
    /\ UNCHANGED genRest

NextGenerate ==
    SkipUnreadable \/ SkipSmall \/ GenerateFile \/ RaiseInFile \/ ReturnExamples

SpecGenerate == InitGenerate /\ [][NextGenerate]_vars

(***************************************************************************)
(* Claims on the per-file loop                                             *)
(***************************************************************************)

\* the examples of the files that can be handled, in file order
RECURSIVE HealthyExamples(_)
HealthyExamples(i) ==
    IF i > Len(gen_files) THEN <<>>
    ELSE (IF gen_files[i].readable /\ gen_files[i].nlines >= 10 /\ ~gen_files[i].raises
            THEN FileExamples(i, gen_files[i]) ELSE <<>>)
         \o HealthyExamples(i + 1)

\* C11: a file that cannot be read, or on which a generator or the
\* assembler raises, is skipped: the run is never aborted, and the list it
\* returns holds the examples of every other file.
C11_FileFailureSkipsFile ==
    /\ gen_pc # "raised"
    /\ gen_pc = "returned" => all_examples = HealthyExamples(1)

(***************************************************************************)
(* fim/bm25.py: retrieve_bm25_context                                      *)
(***************************************************************************)

UpperCase == <<"A", "B", "C", "D", "E", "F", "G", "H", "I", "J", "K", "L", "M", "N", "O", "P", "Q", "R", "S", "T", "U", "V", "W", "X", "Y", "Z">>

LowerCase == <<"a", "b", "c", "d", "e", "f", "g", "h", "i", "j", "k", "l", "m", "n", "o", "p", "q", "r", "s", "t", "u", "v", "w", "x", "y", "z">>

Digits == <<"0", "1", "2", "3", "4", "5", "6", "7", "8", "9">>

InSeq(c, seq) == \E k \in 1..Len(seq) : seq[k] = c

\* str.lower on one character
LowerChar(c) ==
    IF InSeq(c, UpperCase)
        THEN LowerCase[CHOOSE k \in 1..Len(UpperCase) : UpperCase[k] = c]
        ELSE c

\* the characters re.split(r"[^a-zA-Z0-9_]+") does not split on
IsTokenChar(c) ==
    InSeq(c, UpperCase) \/ InSeq(c, LowerCase) \/ InSeq(c, Digits) \/ c = "_"

\* the maximal runs of token characters starting at position i
RECURSIVE TokenRuns(_, _)
TokenRuns(text, i) ==
    IF i > Len(text) THEN <<>>
    ELSE IF ~IsTokenChar(text[i]) THEN TokenRuns(text, i + 1)
    ELSE LET e == IF \E k \in i..Len(text) : ~IsTokenChar(text[k])
                     THEN CHOOSE k \in i..Len(text) :
                              /\ ~IsTokenChar(text[k])
                              /\ \A j \in i..(k - 1) : IsTokenChar(text[j])
                     ELSE Len(text) + 1
         IN  <<Slice(text, i - 1, e - 1)>> \o TokenRuns(text, e)

\* _tokenize_code: the runs longer than one character, lowercased
_tokenize_code(text) ==
    LET runs == TokenRuns(text, 1)
        long == SelectSeq(runs, LAMBDA t : Len(t) > 1)
    IN  [k \in 1..Len(long) |-> [j \in 1..Len(long[k]) |-> LowerChar(long[k][j])]]

\* line 94-97: the (i, s) pairs of chunks of other files with s > 0, in
\* index order
ScoredPairs(files, scores, filepath) ==
    LET idx == SelectSeq([i \in 1..Len(scores) |-> i],
                         LAMBDA i : files[i] # filepath /\ scores[i] > 0)
    IN  [k \in 1..Len(idx) |-> <<idx[k], scores[idx[k]]>>]

\* line 98: list.sort(key = score, reverse = True); the sort is stable, so
\* pairs of equal score keep their order
RECURSIVE SortByScore(_)
SortByScore(pairs) ==
    IF pairs = <<>> THEN <<>>
    ELSE LET at == CHOOSE k \in 1..Len(pairs) :
                      /\ \A j \in 1..Len(pairs) : pairs[j][2] <= pairs[k][2]
                      /\ \A j \in 1..(k - 1) : pairs[j][2] < pairs[k][2]
         IN  <<pairs[at]>> \o
             SortByScore(SliceTo(pairs, at - 1) \o SliceFrom(pairs, at))

\* the loop of line 103-110 without the seen_files test
RECURSIVE DedupeByFile_KeepAll(_, _, _, _)
DedupeByFile_KeepAll(pairs, files, seen, room) ==
    IF pairs = <<>> \/ room = 0 THEN <<>>
    ELSE <<pairs[1]>> \o
         DedupeByFile_KeepAll(Tail(pairs), files, seen, room - 1)

\* line 101-110: the first pair of each file, until top_k pairs are selected
RECURSIVE DedupeByFile(_, _, _, _)
DedupeByFile(pairs, files, seen, room) ==
    IF pairs = <<>> \/ room = 0 THEN <<>>
    ELSE IF files[pairs[1][1]] \in seen
        THEN DedupeByFile(Tail(pairs), files, seen, room)
    ELSE <<pairs[1]>> \o
         DedupeByFile(Tail(pairs), files, seen \cup {files[pairs[1][1]]}, room - 1)

\* line 94-110
Selected(files, scores, filepath, top_k) ==
    DedupeByFile(SliceTo(SortByScore(ScoredPairs(files, scores, filepath)), top_k * 2),
                 files, {}, top_k)

\* index.chunks[i]: a chunk holds more than 20 characters once stripped
\* (line 39, 48, 57); the second chunk of the index is the longer one
ChunkText(i) == [k \in 1..(IF i = 2 THEN 27 ELSE 21) |-> "x"] \o <<Digits[i + 1]>>

\* line 122: f"// --- {index.chunk_files[i]} ---\n{index.chunks[i]}"
ChunkWithHeader(files, i) ==
    <<"/", "/", " ", "-", "-", "-", " ">> \o files[i] \o <<" ", "-", "-", "-", "\n">> \o ChunkText(i)

\* the loop of line 121-128 with continue in place of the break of line 126
RECURSIVE WithinBudget_Continue(_, _, _, _)
WithinBudget_Continue(pairs, files, total, char_budget) ==
    IF pairs = <<>> THEN <<>>
    ELSE LET chunk == ChunkWithHeader(files, pairs[1][1])
         IN  IF total + Len(chunk) > char_budget
               THEN WithinBudget_Continue(Tail(pairs), files, total, char_budget)
             ELSE <<pairs[1]>> \o
                  WithinBudget_Continue(Tail(pairs), files, total + Len(chunk), char_budget)

\* line 118-128: the selected pairs whose chunk fits, up to the first that
\* does not
RECURSIVE WithinBudget(_, _, _, _)
WithinBudget(pairs, files, total, char_budget) ==
    IF pairs = <<>> THEN <<>>
    ELSE LET chunk == ChunkWithHeader(files, pairs[1][1])
         IN  IF total + Len(chunk) > char_budget THEN <<>>
             ELSE <<pairs[1]>> \o
                  WithinBudget(Tail(pairs), files, total + Len(chunk), char_budget)

\* line 137: "\n\n".join(parts) + "\n\n"
RECURSIVE JoinParts(_, _)
JoinParts(pairs, files) ==
    IF pairs = <<>> THEN <<>>
    ELSE ChunkWithHeader(files, pairs[1][1]) \o <<"\n", "\n">> \o
         JoinParts(Tail(pairs), files)

\* Most chunks in the index
MaxChunks == 3

BM25FileNames == {<<"A", ".", "p", "h", "p">>, <<"B", ".", "p", "h", "p">>, <<"C", ".", "p", "h", "p">>}

\* the query's own file: one with chunks in the index, or one without
BM25Paths == {<<"A", ".", "p", "h", "p">>, <<"T", ".", "p", "h", "p">>}

\* scores the scorer may return for a chunk
BM25Scores == {0, 1, 2}

BM25Queries == {<<"a", " ", "b">>, <<"f", "i", "n", "d", "U", "s", "e", "r">>}

BM25TopK == {1, 3}

BM25MaxTokens == {5, 20, 1024}

InitBM25 ==
    /\ bm_query \in BM25Queries
    /\ \E n \in 1..MaxChunks :
          /\ bm_chunk_files \in [1..n -> BM25FileNames]
          /\ bm_scores \in [1..n -> BM25Scores]
    /\ bm_filepath \in BM25Paths
    /\ bm_top_k \in BM25TopK
    /\ bm_max_tokens \in BM25MaxTokens
    /\ bm_selected = <<>>
    /\ bm_result = <<>>
    /\ bm_pc = "called"
    /\ BmRestIdle

\* line 84-89: a query without tokens returns ""
RetrieveEmptyQuery ==
    /\ bm_pc = "called"
    /\ _tokenize_code(bm_query) = <<>>
    /\ bm_selected' = <<>>
    /\ bm_result' = <<>>
    /\ bm_pc' = "returned"
    /\ UNCHANGED <<bm_query, bm_chunk_files, bm_scores, bm_filepath, bm_top_k, bm_max_tokens>>
    /\ UNCHANGED bmRest

\* line 91-145
Retrieve ==
    /\ bm_pc = "called"
    /\ _tokenize_code(bm_query) # <<>>
    /\ LET selected == Selected(bm_chunk_files, bm_scores, bm_filepath, bm_top_k)
           parts == WithinBudget(selected, bm_chunk_files, 0, bm_max_tokens * 4)
       IN  /\ bm_selected' = parts
           /\ bm_result' = JoinParts(parts, bm_chunk_files)
    /\ bm_pc' = "returned"
    /\ UNCHANGED <<bm_query, bm_chunk_files, bm_scores, bm_filepath, bm_top_k, bm_max_tokens>>
    /\ UNCHANGED bmRest

NextBM25 == RetrieveEmptyQuery \/ Retrieve

SpecBM25 == InitBM25 /\ [][NextBM25]_vars

(***************************************************************************)
(* Claims on BM25 retrieval                                                *)
(***************************************************************************)

\* C12: the chunks in the result of retrieve_bm25_context all have a score
\* above 0, none is of the query's own file, no two are of the same file
\* and the one kept for a file is a highest-scoring chunk of that file,
\* there are at most top_k of them, and their scores never increase along
\* the result.
C12_ResultChunks ==
    bm_pc = "returned" =>
        /\ Len(bm_selected) <= bm_top_k
        /\ \A k \in 1..Len(bm_selected) :
              LET i == bm_selected[k][1]
              IN  /\ i \in 1..Len(bm_chunk_files)
                  /\ bm_selected[k][2] = bm_scores[i]
                  /\ bm_scores[i] > 0
                  /\ bm_chunk_files[i] # bm_filepath
                  /\ \A j \in 1..Len(bm_chunk_files) :
                        bm_chunk_files[j] = bm_chunk_files[i]
                            => bm_scores[j] <= bm_scores[i]
                  /\ \A l \in 1..Len(bm_selected) :
                        l # k => bm_chunk_files[bm_selected[l][1]] # bm_chunk_files[i]
                  /\ k > 1 => bm_selected[k - 1][2] >= bm_selected[k][2]
        /\ bm_result = JoinParts(bm_selected, bm_chunk_files)

\* a result of two chunks of different scores, taken from an index that
\* holds another chunk of the first file with a score above 0
C12_Witness ==
    /\ bm_pc = "returned"
    /\ Len(bm_selected) = 2
    /\ bm_selected[1][2] > bm_selected[2][2]
    /\ bm_result # <<>>
    /\ \E j \in 1..Len(bm_chunk_files) :
          /\ j # bm_selected[1][1]
          /\ bm_chunk_files[j] = bm_chunk_files[bm_selected[1][1]]
          /\ bm_scores[j] > 0

(***************************************************************************)
(* fim/crossfile.py and fim/languages/_php.py: cross-file signatures       *)
(***************************************************************************)

\* where a greedy \w+ stops when it starts after p characters of the text
SkipWord(text, p) ==
    CHOOSE q \in p..Len(text) :
        /\ \A k \in (p + 1)..q : IsWordChar(text[k])
        /\ q = Len(text) \/ ~IsWordChar(text[q + 1])

\* s.rstrip()
RStrip(s) ==
    LET keep == {i \in 1..Len(s) : ~IsSpace(s[i])}
    IN  IF keep = {} THEN <<>>
        ELSE SubSeq(s, 1, CHOOSE i \in keep : \A j \in keep : i >= j)

\* the least element of a non-empty set of positions
Least(S) == CHOOSE i \in S : \A j \in S : i <= j

\* the positions where (?:(?:m1|m2|...)\s+)* can stop when it starts after
\* p characters of the line
RECURSIVE ModifierStops(_, _, _)
ModifierStops(line, mods, p) ==
    LET next == {SkipSpace(line, p + Len(m)) :
                    m \in {m \in mods : /\ StartsWithAt(line, m, p)
                                        /\ SkipSpace(line, p + Len(m)) > p + Len(m)}}
    IN  {p} \cup UNION {ModifierStops(line, mods, q) : q \in next}

MethodModifiers ==
    {<<"p", "u", "b", "l", "i", "c">>, <<"p", "r", "o", "t", "e", "c", "t", "e", "d">>, <<"p", "r", "i", "v", "a", "t", "e">>, <<"s", "t", "a", "t", "i", "c">>, <<"a", "b", "s", "t", "r", "a", "c", "t">>, <<"f", "i", "n", "a", "l">>}

PropertyModifiers == {<<"p", "u", "b", "l", "i", "c">>, <<"p", "r", "o", "t", "e", "c", "t", "e", "d">>, <<"p", "r", "i", "v", "a", "t", "e">>, <<"s", "t", "a", "t", "i", "c">>}

\* function\s+(\w+)\s*\( at p: the span of the name, or <<>>
FunctionAt(line, p) ==
    LET a == p + 8
        b == SkipSpace(line, a)
        c == SkipWord(line, b)
    IN  IF /\ StartsWithAt(line, <<"f", "u", "n", "c", "t", "i", "o", "n">>, p)
           /\ b > a /\ c > b
           /\ StartsWithAt(line, <<"(">>, SkipSpace(line, c))
        THEN <<b, c>> ELSE <<>>

\* re.match(r"\s*(?:(?:public|...|final)\s+)*function\s+(\w+)\s*\(", line):
\* m.group(1), or <<>> when the line does not match
MethodName(line) ==
    LET hits == {p \in ModifierStops(line, MethodModifiers, SkipSpace(line, 0)) :
                    FunctionAt(line, p) # <<>>}
    IN  IF hits = {} THEN <<>>
        ELSE LET span == FunctionAt(line, Least(hits))
             IN  Slice(line, span[1], span[2])

\* (?:\?\w+|\w+) \$ at p
TypedPropertyAt(s, p) ==
    LET q == IF StartsWithAt(s, <<"?">>, p) THEN p + 1 ELSE p
        w == SkipWord(s, q)
    IN  w > q /\ StartsWithAt(s, <<" ", "$">>, w)

\* re.match(r"\s*(?:(?:public|protected|private|static)\s+)*
\*            (?:const |(?:\?\w+|\w+) \$)", stripped)
IsConstOrProperty(stripped) ==
    \E p \in ModifierStops(stripped, PropertyModifiers, SkipSpace(stripped, 0)) :
        StartsWithAt(stripped, <<"c", "o", "n", "s", "t", " ">>, p) \/ TypedPropertyAt(stripped, p)

\* re.search(r"const\s+(\w+)", stripped): group(1), or <<>>
ConstName(s) ==
    LET hits == {i \in 0..Len(s) :
                    /\ StartsWithAt(s, <<"c", "o", "n", "s", "t">>, i)
                    /\ SkipSpace(s, i + 5) > i + 5
                    /\ SkipWord(s, SkipSpace(s, i + 5)) > SkipSpace(s, i + 5)}
    IN  IF hits = {} THEN <<>>
        ELSE LET b == SkipSpace(s, Least(hits) + 5)
             IN  Slice(s, b, SkipWord(s, b))

\* re.search(r"\$(\w+)", stripped): group(1), or <<>>
DollarName(s) ==
    LET hits == {i \in 0..Len(s) :
                    StartsWithAt(s, <<"$">>, i) /\ SkipWord(s, i + 1) > i + 1}
    IN  IF hits = {} THEN <<>>
        ELSE Slice(s, Least(hits) + 1, SkipWord(s, Least(hits) + 1))

\* line 62-64 (_php.py 87-89): (cm.group(1) if cm else None) or
\* (pm.group(1) if pm else None)
ConstOrPropertyName(s) ==
    IF ConstName(s) # <<>> THEN ConstName(s) ELSE DollarName(s)

\* line 46-53: the signature line of a method
MethodSignature(line) ==
    LET sig == RStrip(line)
    IN  IF Contains(sig, <<"{">>)
            THEN SliceTo(sig, Find(sig, <<"{">>, 0)) \o <<"{", " ", ".", ".", ".", " ", "}">>
        ELSE IF Contains(sig, <<";">>) THEN sig
        ELSE sig \o <<" ", "{", " ", ".", ".", ".", " ", "}">>

StartsWithAny(s, prefixes) == \E p \in prefixes : StartsWithAt(s, p, 0)

\* crossfile.py line 28-30
StructuralPrefixes ==
    {<<"n", "a", "m", "e", "s", "p", "a", "c", "e", " ">>, <<"u", "s", "e", " ">>, <<"c", "l", "a", "s", "s", " ">>, <<"i", "n", "t", "e", "r", "f", "a", "c", "e", " ">>, <<"t", "r", "a", "i", "t", " ">>,
     <<"a", "b", "s", "t", "r", "a", "c", "t", " ", "c", "l", "a", "s", "s">>, <<"f", "i", "n", "a", "l", " ", "c", "l", "a", "s", "s">>, <<"e", "n", "u", "m", " ">>}

\* _php.py line 60
PhpStructuralPrefixes ==
    {<<"c", "l", "a", "s", "s", " ">>, <<"i", "n", "t", "e", "r", "f", "a", "c", "e", " ">>, <<"t", "r", "a", "i", "t", " ">>, <<"a", "b", "s", "t", "r", "a", "c", "t", " ", "c", "l", "a", "s", "s">>, <<"f", "i", "n", "a", "l", " ", "c", "l", "a", "s", "s">>, <<"e", "n", "u", "m", " ">>}

\* referenced_symbols is modelled as a pair: filtered is FALSE for None
NotReferenced(name, filtered, symbols) == filtered /\ name \notin symbols

\* crossfile.py line 24-67: what one source line adds to sig_lines
SignatureLine(line, filtered, symbols) ==
    LET stripped == Strip(line)
    IN  IF StartsWithAny(stripped, StructuralPrefixes) THEN <<line>>
        ELSE IF MethodName(line) # <<>>
            THEN IF NotReferenced(MethodName(line), filtered, symbols)
                 THEN <<>> ELSE <<MethodSignature(line)>>
        ELSE IF IsConstOrProperty(stripped)
            THEN IF /\ filtered
                    /\ ConstOrPropertyName(stripped) # <<>>
                    /\ ConstOrPropertyName(stripped) \notin symbols
                 THEN <<>> ELSE <<line>>
        ELSE <<>>

RECURSIVE SignatureLines(_, _, _)
SignatureLines(lines, filtered, symbols) ==
    IF lines = <<>> THEN <<>>
    ELSE SignatureLine(lines[1], filtered, symbols)
         \o SignatureLines(Tail(lines), filtered, symbols)

\* crossfile.py line 76 (_php.py 106): f"// --- {filepath.name} ---\n"
SignatureHeader(name) == <<"/", "/", " ", "-", "-", "-", " ">> \o name \o <<" ", "-", "-", "-", "\n">>

\* crossfile.py line 6-77
extract_file_signature(src, name, filtered, symbols, max_lines) ==
    LET sig_lines == SignatureLines(SplitNL(src), filtered, symbols)
    IN  IF sig_lines = <<>> THEN <<>>
        ELSE SignatureHeader(name) \o JoinNL(SliceTo(sig_lines, max_lines))

\* re.search(r"\bprivate\b", line)
IsPrivate(line) ==
    \E i \in 0..Len(line) :
        /\ KeywordAt(line, <<"p", "r", "i", "v", "a", "t", "e">>, i)
        /\ i = 0 \/ ~IsWordChar(line[i])

\* _php.py line 57-92: what one source line adds to sig_lines, as a record:
\* the line added (or none) and whether it is a public or protected method
\* the target does not reference
PhpSignatureLine(line, filtered, symbols) ==
    LET stripped == Strip(line)
        none == [add |-> <<>>, prunable |-> FALSE]
    IN  IF StartsWithAny(stripped, PhpStructuralPrefixes)
            THEN [add |-> <<line>>, prunable |-> FALSE]
        ELSE IF MethodName(line) # <<>>
            THEN LET is_referenced == ~NotReferenced(MethodName(line), filtered, symbols)
                 IN  IF IsPrivate(line) /\ ~is_referenced THEN none
                     ELSE [add |-> <<MethodSignature(line)>>,
                           prunable |-> ~IsPrivate(line) /\ ~is_referenced]
        ELSE IF IsConstOrProperty(stripped)
            THEN IF /\ filtered
                    /\ ConstOrPropertyName(stripped) # <<>>
                    /\ ConstOrPropertyName(stripped) \notin symbols
                 THEN none ELSE [add |-> <<line>>, prunable |-> FALSE]
        ELSE none

\* _php.py line 57-92: sig_lines paired with the prunable flag of each line
RECURSIVE PhpSignatureLines(_, _, _)
PhpSignatureLines(lines, filtered, symbols) ==
    IF lines = <<>> THEN <<>>
    ELSE LET r == PhpSignatureLine(lines[1], filtered, symbols)
         IN  (IF r.add = <<>> THEN <<>>
              ELSE <<[text |-> r.add[1], prunable |-> r.prunable]>>)
             \o PhpSignatureLines(Tail(lines), filtered, symbols)

\* _php.py line 97-102: pop the last prunable line while the list is longer
\* than max_lines
RECURSIVE PruneUnreferenced(_, _)
PruneUnreferenced(entries, max_lines) ==
    LET prunable == {k \in 1..Len(entries) : entries[k].prunable}
    IN  IF Len(entries) <= max_lines \/ prunable = {} THEN entries
        ELSE LET last == CHOOSE k \in prunable : \A j \in prunable : j <= k
             IN  PruneUnreferenced(SliceTo(entries, last - 1) \o SliceFrom(entries, last),
                                   max_lines)

\* _php.py line 41-107
_extract_signature(src, name, filtered, symbols, max_lines) ==
    LET entries == PhpSignatureLines(SplitNL(src), filtered, symbols)
        pruned == SliceTo(PruneUnreferenced(entries, max_lines), max_lines)
    IN  IF entries = <<>> THEN <<>>
        ELSE SignatureHeader(name)
             \o JoinNL([k \in 1..Len(pruned) |-> pruned[k].text])

\* the groups of the matches re.finditer yields from position `from` on:
\* matches[i] is <<group, end>> when the expression matches at i and <<>>
\* otherwise; the scan resumes at the end of a match
RECURSIVE FindIter(_, _)
FindIter(matches, from) ==
    LET hits == {i \in DOMAIN matches : i >= from /\ matches[i] # <<>>}
    IN  IF hits = {} THEN {}
        ELSE LET m == matches[Least(hits)]
             IN  {m[1]} \cup FindIter(matches, m[2])

\* (\w+)\s*\( after p characters: <<group, end>> or <<>>
CalledNameAt(src, p) ==
    LET c == SkipWord(src, p)
        d == SkipSpace(src, c)
    IN  IF c > p /\ StartsWithAt(src, <<"(">>, d)
        THEN <<Slice(src, p, c), d + 1>> ELSE <<>>

\* line 87: (?:->|::)(\w+)\s*\(
MemberCallAt(src, i) ==
    IF StartsWithAt(src, <<"-", ">">>, i) \/ StartsWithAt(src, <<":", ":">>, i)
    THEN CalledNameAt(src, i + 2) ELSE <<>>

\* line 90: ::(\w+)
StaticAccessAt(src, i) ==
    IF StartsWithAt(src, <<":", ":">>, i) /\ SkipWord(src, i + 2) > i + 2
    THEN <<Slice(src, i + 2, SkipWord(src, i + 2)), SkipWord(src, i + 2)>>
    ELSE <<>>

ClassKeywords == {<<"e", "x", "t", "e", "n", "d", "s">>, <<"i", "m", "p", "l", "e", "m", "e", "n", "t", "s">>, <<"n", "e", "w">>, <<"i", "n", "s", "t", "a", "n", "c", "e", "o", "f">>}

\* line 93: (?:extends|implements|new|instanceof)\s+(\w+)
ClassReferenceAt(src, i) ==
    LET kws == {kw \in ClassKeywords :
                   /\ StartsWithAt(src, kw, i)
                   /\ SkipSpace(src, i + Len(kw)) > i + Len(kw)
                   /\ SkipWord(src, SkipSpace(src, i + Len(kw)))
                          > SkipSpace(src, i + Len(kw))}
    IN  IF kws = {} THEN <<>>
        ELSE LET b == SkipSpace(src, i + Len(CHOOSE kw \in kws : TRUE))
             IN  <<Slice(src, b, SkipWord(src, b)), SkipWord(src, b)>>

\* line 96: \b(\w+)\s*\(
DirectCallAt(src, i) ==
    IF /\ i < Len(src) /\ IsWordChar(src[i + 1])
       /\ i = 0 \/ ~IsWordChar(src[i])
    THEN CalledNameAt(src, i) ELSE <<>>

\* line 80-98
_extract_referenced_symbols(src) ==
    FindIter([i \in 0..Len(src) |-> MemberCallAt(src, i)], 0)
    \cup FindIter([i \in 0..Len(src) |-> StaticAccessAt(src, i)], 0)
    \cup FindIter([i \in 0..Len(src) |-> ClassReferenceAt(src, i)], 0)
    \cup FindIter([i \in 0..Len(src) |-> DirectCallAt(src, i)], 0)

\* where a greedy [\w\\]+ stops when it starts after p characters
SkipClassPath(text, p) ==
    CHOOSE q \in p..Len(text) :
        /\ \A k \in (p + 1)..q : IsWordChar(text[k]) \/ text[k] = "\\"
        /\ q = Len(text) \/ ~(IsWordChar(text[q + 1]) \/ text[q + 1] = "\\")

\* s.split(sep)[-1] for a one-character separator
AfterLast(s, sep) ==
    LET at == {k \in 1..Len(s) : s[k] = sep}
    IN  IF at = {} THEN s
        ELSE SliceFrom(s, CHOOSE k \in at : \A j \in at : j <= k)

\* line 116-119: use\s+([\w\\]+?)(?:\s+as\s+\w+)?; giving
\* <<fqcn.split("\\")[-1], end>>
UseAt(src, i) ==
    IF ~StartsWithAt(src, <<"u", "s", "e">>, i) THEN <<>>
    ELSE LET b == SkipSpace(src, i + 3)
             g == SkipClassPath(src, b)
             s1 == SkipSpace(src, g)
         IN  IF ~(b > i + 3 /\ g > b) THEN <<>>
             ELSE IF StartsWithAt(src, <<";">>, g)
                 THEN <<AfterLast(Slice(src, b, g), "\\"), g + 1>>
             ELSE IF s1 > g /\ StartsWithAt(src, <<"a", "s">>, s1)
                 THEN LET s2 == SkipSpace(src, s1 + 2)
                          w == SkipWord(src, s2)
                      IN  IF s2 > s1 + 2 /\ w > s2 /\ StartsWithAt(src, <<";">>, w)
                          THEN <<AfterLast(Slice(src, b, g), "\\"), w + 1>>
                          ELSE <<>>
             ELSE <<>>

IsQuote(c) == c \in {"'", "\""}

\* os.path.splitext(name)[0]
SplitExtRoot(name) ==
    LET dots == {k \in 1..Len(name) :
                    name[k] = "." /\ \E j \in 1..(k - 1) : name[j] # "."}
    IN  IF dots = {} THEN name
        ELSE SliceTo(name, (CHOOSE k \in dots : \A j \in dots : j <= k) - 1)

\* line 123-127: (?:require|include)(?:_once)?\s*\(\s*['"]([^'"]+?)['"]\s*\)
\* giving <<splitext(basename(group))[0], end>>
RequireAt(src, i) ==
    LET kws == {kw \in {<<"r", "e", "q", "u", "i", "r", "e">>, <<"i", "n", "c", "l", "u", "d", "e">>} : StartsWithAt(src, kw, i)}
    IN  IF kws = {} THEN <<>>
        ELSE LET a == i + 7
                 b == IF StartsWithAt(src, <<"_", "o", "n", "c", "e">>, a) THEN a + 5 ELSE a
                 c == SkipSpace(src, b)
                 d == SkipSpace(src, c + 1)
                 closing == {k \in (d + 2)..Len(src) : IsQuote(src[k])}
             IN  IF ~(/\ StartsWithAt(src, <<"(">>, c)
                      /\ d < Len(src) /\ IsQuote(src[d + 1])
                      /\ closing # {})
                 THEN <<>>
                 ELSE LET e == Least(closing)
                          f == SkipSpace(src, e)
                      IN  IF e > d + 2 /\ StartsWithAt(src, <<")">>, f)
                          THEN <<SplitExtRoot(AfterLast(Slice(src, d + 1, e - 1), "/")),
                                 f + 1>>
                          ELSE <<>>

\* Path(name).stem
Stem(name) == SplitExtRoot(name)

\* line 114-127: use_classes and require_files
ImportedStems(src) ==
    FindIter([i \in 0..Len(src) |-> UseAt(src, i)], 0)
    \cup FindIter([i \in 0..Len(src) |-> RequireAt(src, i)], 0)

\* line 130-137: the files of all_files, other than the target, whose stem
\* a use or require statement names; at most five
find_related_files(filepath, all_files, stems) ==
    SliceTo(SelectSeq(all_files,
                LAMBDA f : f.name # filepath /\ Stem(f.name) \in stems),
            5)

\* re.match(r".*\b(?:extends|implements)\b", line)
HasInheritanceKeyword(line) ==
    \E i \in 0..Len(line) :
        /\ KeywordAt(line, <<"e", "x", "t", "e", "n", "d", "s">>, i) \/ KeywordAt(line, <<"i", "m", "p", "l", "e", "m", "e", "n", "t", "s">>, i)
        /\ i = 0 \/ ~IsWordChar(line[i])

\* line 169-173
extends_this(src, stem) ==
    LET lines == SplitNL(src)
    IN  \E k \in 1..Len(lines) :
            HasInheritanceKeyword(lines[k]) /\ Contains(lines[k], stem)

\* line 176 with the filter of line 174: the signature of one related file
RelatedSignature(src, rel_file, referenced) ==
    extract_file_signature(rel_file.text, rel_file.name,
                           ~extends_this(src, Stem(rel_file.name)), referenced, 40)

\* line 162-184: context_parts, signature[f] being the signature of line
\* 176 for file f; a file that cannot be read or has no signature is passed
\* over, the first signature over the budget ends the loop
RECURSIVE ContextParts(_, _, _, _)
ContextParts(related, signature, total_len, char_budget) ==
    IF related = <<>> THEN <<>>
    ELSE LET sig == signature[related[1]]
         IN  IF ~related[1].readable \/ sig = <<>>
                 THEN ContextParts(Tail(related), signature, total_len, char_budget)
             ELSE IF total_len + Len(sig) > char_budget THEN <<>>
             ELSE <<sig>> \o ContextParts(Tail(related), signature,
                                          total_len + Len(sig), char_budget)

\* line 189: "\n\n".join(context_parts) + "\n\n"
RECURSIVE JoinBlank(_)
JoinBlank(parts) ==
    IF parts = <<>> THEN <<>>
    ELSE parts[1] \o <<"\n", "\n">> \o JoinBlank(Tail(parts))

(***************************************************************************)
(* SpecCrossFile: one call of build_cross_file_context, or one call of the *)
(* PHP language configuration's signature extractor                        *)
(***************************************************************************)

PoolFile(name, readable, text) == [name |-> name, readable |-> readable, text |-> text]

FileUserService ==
    PoolFile(<<"U", "s", "e", "r", "S", "e", "r", "v", "i", "c", "e", ".", "p", "h", "p">>, TRUE,
        <<"n", "a", "m", "e", "s", "p", "a", "c", "e", " ", "A", "p", "p", ";", "\n", "c", "l",
          "a", "s", "s", " ", "U", "s", "e", "r", "S", "e", "r", "v", "i", "c", "e", "\n", "{",
          "\n", " ", " ", "p", "r", "i", "v", "a", "t", "e", " ", "R", "e", "p", "o", " ", "$",
          "r", "e", "p", "o", ";", "\n", " ", " ", "p", "u", "b", "l", "i", "c", " ", "f", "u",
          "n", "c", "t", "i", "o", "n", " ", "f", "i", "n", "d", "U", "s", "e", "r", "(", "$",
          "i", "d", ")", "\n", " ", " ", "{", "\n", " ", " ", "}", "\n", " ", " ", "p", "r", "i",
          "v", "a", "t", "e", " ", "f", "u", "n", "c", "t", "i", "o", "n", " ", "d", "e", "l",
          "e", "t", "e", "U", "s", "e", "r", "(", ")", " ", "{", "\n", " ", " ", "}", "\n", " ",
          " ", "p", "u", "b", "l", "i", "c", " ", "f", "u", "n", "c", "t", "i", "o", "n", " ",
          "l", "i", "s", "t", "U", "s", "e", "r", "s", "(", ")", ";", "\n", "}">>)

FileRepo ==
    PoolFile(<<"R", "e", "p", "o", ".", "p", "h", "p">>, TRUE,
        <<"i", "n", "t", "e", "r", "f", "a", "c", "e", " ", "R", "e", "p", "o", "\n", "{", "\n",
          " ", " ", "f", "u", "n", "c", "t", "i", "o", "n", " ", "f", "i", "n", "d", "(", "$",
          "i", "d", ")", ";", "\n", "}">>)

FilePlain ==
    PoolFile(<<"P", "l", "a", "i", "n", ".", "p", "h", "p">>, TRUE,
        <<"<", "?", "p", "h", "p", "\n", "$", "x", " ", "=", " ", "1", ";">>)

FileGone ==
    PoolFile(<<"G", "o", "n", "e", ".", "p", "h", "p">>, FALSE,
        <<>>)

TargetFindActive ==
    <<"u", "s", "e", " ", "A", "p", "p", "\\", "U", "s", "e", "r", "S", "e", "r", "v", "i",
      "c", "e", ";", "\n", "u", "s", "e", " ", "A", "p", "p", "\\", "R", "e", "p", "o", ";",
      "\n", "u", "s", "e", " ", "A", "p", "p", "\\", "P", "l", "a", "i", "n", ";", "\n", "u",
      "s", "e", " ", "A", "p", "p", "\\", "G", "o", "n", "e", ";", "\n", "$", "s", "-", ">",
      "f", "i", "n", "d", "A", "c", "t", "i", "v", "e", "(", ")", ";">>

TargetExtends ==
    <<"u", "s", "e", " ", "A", "p", "p", "\\", "U", "s", "e", "r", "S", "e", "r", "v", "i",
      "c", "e", ";", "\n", "u", "s", "e", " ", "A", "p", "p", "\\", "R", "e", "p", "o", ";",
      "\n", "c", "l", "a", "s", "s", " ", "C", " ", "e", "x", "t", "e", "n", "d", "s", " ",
      "U", "s", "e", "r", "S", "e", "r", "v", "i", "c", "e", " ", "{", "\n", " ", " ", "f",
      "u", "n", "c", "t", "i", "o", "n", " ", "f", "(", ")", " ", "{", " ", "$", "t", "h",
      "i", "s", "-", ">", "f", "i", "n", "d", "(", "1", ")", ";", " ", "}", "\n", "}">>

TargetRequire ==
    <<"r", "e", "q", "u", "i", "r", "e", "(", "'", "l", "i", "b", "/", "R", "e", "p", "o",
      ".", "p", "h", "p", "'", ")", ";", "\n", "u", "s", "e", " ", "A", "p", "p", "\\", "U",
      "s", "e", "r", "S", "e", "r", "v", "i", "c", "e", ";", "\n", "$", "s", "-", ">", "f",
      "i", "n", "d", "U", "s", "e", "r", "(", "1", ")", ";">>

TargetNoImport ==
    <<"e", "c", "h", "o", " ", "1", ";">>

PoolFiles == {FileUserService, FileRepo, FilePlain, FileGone}

TargetSources == {TargetFindActive, TargetExtends, TargetRequire, TargetNoImport}

TargetNames == {<<"U", "s", "e", "r", "C", "o", "n", "t", "r", "o", "l", "l", "e", "r", ".", "p", "h", "p">>, <<"R", "e", "p", "o", ".", "p", "h", "p">>}

\* Most files in all_files
MaxPoolFiles == 3

CrossFileMaxTokens == {8, 14, 15, 1024}

\* max_lines of the direct extractor call
SignatureMaxLines == {2, 40}

\* every list of distinct pool files of at most MaxPoolFiles files
FileLists ==
    {l \in UNION {[1..n -> PoolFiles] : n \in 0..MaxPoolFiles} :
        \A i, j \in 1..Len(l) : i # j => l[i] # l[j]}

\* the pure functions of the target source, tabulated for the pool
ReferencedOf == [src \in TargetSources |-> _extract_referenced_symbols(src)]

ImportedStemsOf == [src \in TargetSources |-> ImportedStems(src)]

SignatureOf ==
    [src \in TargetSources |->
        [f \in PoolFiles |-> RelatedSignature(src, f, ReferencedOf[src])]]

PhpSignatureOf ==
    [src \in TargetSources |-> [f \in PoolFiles |-> [max_lines \in SignatureMaxLines |->
        _extract_signature(f.text, f.name, ~extends_this(src, Stem(f.name)),
                           ReferencedOf[src], max_lines)]]]

Related == find_related_files(cx_filepath, cx_all_files, ImportedStemsOf[cx_source])

InitCrossFile ==
    /\ cx_source \in TargetSources
    /\ cx_filepath \in TargetNames
    /\ cx_all_files \in FileLists
    /\ cx_max_tokens \in CrossFileMaxTokens
    /\ cx_parts = <<>>
    /\ cx_result = <<>>
    /\ cx_rel_file = <<>>
    /\ cx_filtered = FALSE
    /\ cx_sig = <<>>
    /\ cx_pc = "called"
    /\ CxRestIdle

\* crossfile.py line 140-189
BuildContext ==
    /\ cx_pc = "called"
    /\ LET parts == ContextParts(Related, SignatureOf[cx_source],
                                 0, cx_max_tokens * 4)
       IN  /\ cx_parts' = parts
           /\ cx_result' = JoinBlank(parts)
    /\ cx_pc' = "returned"
    /\ UNCHANGED <<cx_source, cx_filepath, cx_all_files, cx_max_tokens,
                   cx_rel_file, cx_filtered, cx_sig>>
    /\ UNCHANGED cxRest

\* _php.py line 41-107, called for a related file with the filter of
\* crossfile.py line 169-174
ExtractPhpSignature ==
    /\ cx_pc = "called"
    /\ \E k \in 1..Len(Related), max_lines \in SignatureMaxLines :
          LET rel_file == Related[k]
              filtered == ~extends_this(cx_source, Stem(rel_file.name))
          IN  /\ rel_file.readable
              /\ cx_rel_file' = rel_file
              /\ cx_filtered' = filtered
              /\ cx_sig' = PhpSignatureOf[cx_source][rel_file][max_lines]
    /\ cx_pc' = "extracted"
    /\ UNCHANGED <<cx_source, cx_filepath, cx_all_files, cx_max_tokens,
                   cx_parts, cx_result>>
    /\ UNCHANGED cxRest

NextCrossFile == BuildContext \/ ExtractPhpSignature

SpecCrossFile == InitCrossFile /\ [][NextCrossFile]_vars

(***************************************************************************)
(* Claims on the cross-file context                                        *)
(***************************************************************************)

\* the signatures of the related files that can be read and have one, in
\* related-file order
RelatedSignatures ==
    LET idx == SelectSeq([k \in 1..Len(Related) |-> k],
                   LAMBDA k : /\ Related[k].readable
                              /\ SignatureOf[cx_source][Related[k]] # <<>>)
    IN  [k \in 1..Len(idx) |-> SignatureOf[cx_source][Related[idx[k]]]]

RECURSIVE TotalLen(_)
TotalLen(parts) ==
    IF parts = <<>> THEN 0 ELSE Len(parts[1]) + TotalLen(Tail(parts))

\* C13: the string build_cross_file_context returns, the included
\* signatures joined by blank lines with the trailing blank-line separator,
\* is never longer than max_tokens * 4 characters; the signatures are added
\* in related-file order and adding stops the first time a signature would
\* exceed the budget.
C13_ContextWithinBudget ==
    cx_pc = "returned" =>
        /\ Len(cx_result) <= cx_max_tokens * 4
        /\ cx_result = JoinBlank(cx_parts)
        /\ Len(cx_parts) <= Len(RelatedSignatures)
        /\ cx_parts = SliceTo(RelatedSignatures, Len(cx_parts))
        /\ Len(cx_parts) < Len(RelatedSignatures) =>
              TotalLen(cx_parts) + Len(RelatedSignatures[Len(cx_parts) + 1])
                  > cx_max_tokens * 4

\* the lines of a signature that declare a method the target does not
\* reference
UnreferencedMethods(sig) ==
    LET lines == SplitNL(sig)
    IN  {k \in 1..Len(lines) :
            /\ MethodName(lines[k]) # <<>>
            /\ MethodName(lines[k]) \notin ReferencedOf[cx_source]}

HasHeader(sig, name) == StartsWithAt(sig, SignatureHeader(name), 0)

\* the class, interface, trait and enum declaration lines of a file
DeclarationLines(text) ==
    LET lines == SplitNL(text)
    IN  {lines[k] : k \in {k \in 1..Len(lines) :
            StartsWithAny(Strip(lines[k]), PhpStructuralPrefixes)}}

SignatureKeepsDeclarations(sig, text) ==
    LET lines == SplitNL(sig)
    IN  \A line \in DeclarationLines(text) :
            \E k \in 1..Len(lines) : lines[k] = line

\* C14: unless the target has an extends or implements line that names the
\* related file's stem, the signature of a related file holds no method
\* declaration whose name is not among the symbols the target references,
\* and it keeps the file header and the structural declarations.  This is
\* stated of the signatures in the context built by
\* build_cross_file_context and of the signature the PHP language
\* configuration's extractor returns.
C14_SignaturesFiltered ==
    /\ cx_pc = "returned" =>
          \A p \in 1..Len(cx_parts) :
              \E f \in PoolFiles :
                  /\ HasHeader(cx_parts[p], f.name)
                  /\ SignatureKeepsDeclarations(cx_parts[p], f.text)
                  /\ ~extends_this(cx_source, Stem(f.name))
                        => UnreferencedMethods(cx_parts[p]) = {}
    /\ cx_pc = "extracted" /\ cx_sig # <<>> =>
          /\ HasHeader(cx_sig, cx_rel_file.name)
          /\ cx_filtered => UnreferencedMethods(cx_sig) = {}


\* ---------------------------------------------------------------------------
\* AST span extraction: src/python/generate/_spans_ast.py, extract_spans_ast.
\* A syntax tree is a table of nodes; a node is a record with the fields that
\* the code reads from a tree-sitter node: type, start_byte, end_byte and
\* children (ids, in source order).  The trees below are what the Python
\* grammar yields for their sources; the language configuration is PYTHON
\* (src/python/fim/languages/_python.py).
\* ---------------------------------------------------------------------------

\* lc.ast_eligible_types, _python.py:98-107
ast_eligible_types ==
    {"expression_statement", "return_statement", "if_statement",
     "for_statement", "while_statement", "try_statement",
     "function_definition", "class_definition", "assignment",
     "augmented_assignment", "call", "with_statement",
     "assert_statement", "raise_statement", "yield",
     "list_comprehension", "dictionary_comprehension",
     "set_comprehension", "generator_expression",
     "conditional_expression", "lambda", "decorated_definition"}

\* lc.ast_function_types, _python.py:114
ast_function_types == {"function_definition"}

\* 132 bytes, 37 nodes; node 1 is the root, ids in preorder.
\*     # tools
\*     def outer(a):
\*         def inner():
\*             return a
\*         return inner
\*     # done
\*     x = outer(1)
\*     # the closure keeps the argument alive
TreeNestedSource ==
    <<"#", " ", "t", "o", "o", "l", "s", "\n">>
    \o <<"d", "e", "f", " ", "o", "u", "t", "e", "r", "(", "a", ")", ":", "\n">>
    \o <<" ", " ", " ", " ", "d", "e", "f", " ", "i", "n", "n", "e", "r", "(", ")", ":", "\n">>
    \o <<" ", " ", " ", " ", " ", " ", " ", " ", "r", "e", "t", "u", "r", "n", " ", "a", "\n">>
    \o <<" ", " ", " ", " ", "r", "e", "t", "u", "r", "n", " ", "i", "n", "n", "e", "r", "\n">>
    \o <<"#", " ", "d", "o", "n", "e", "\n">>
    \o <<"x", " ", "=", " ", "o", "u", "t", "e", "r", "(", "1", ")", "\n">>
    \o <<"#", " ", "t", "h", "e", " ", "c", "l", "o", "s", "u", "r", "e", " ", "k", "e", "e", "p", "s", " ", "t", "h", "e", " ", "a", "r", "g", "u", "m", "e", "n", "t", " ", "a", "l", "i", "v", "e", "\n">>

TreeNestedNodes ==
    << [type |-> "module", start_byte |-> 0, end_byte |-> 132, children |-> <<2, 3, 26, 27, 37>>],
       [type |-> "comment", start_byte |-> 0, end_byte |-> 7, children |-> <<>>],
       [type |-> "function_definition", start_byte |-> 8, end_byte |-> 72, children |-> <<4, 5, 6, 10, 11>>],
       [type |-> "def", start_byte |-> 8, end_byte |-> 11, children |-> <<>>],
       [type |-> "identifier", start_byte |-> 12, end_byte |-> 17, children |-> <<>>],
       [type |-> "parameters", start_byte |-> 17, end_byte |-> 20, children |-> <<7, 8, 9>>],
       [type |-> "(", start_byte |-> 17, end_byte |-> 18, children |-> <<>>],
       [type |-> "identifier", start_byte |-> 18, end_byte |-> 19, children |-> <<>>],
       [type |-> ")", start_byte |-> 19, end_byte |-> 20, children |-> <<>>],
       [type |-> ":", start_byte |-> 20, end_byte |-> 21, children |-> <<>>],
       [type |-> "block", start_byte |-> 26, end_byte |-> 72, children |-> <<12, 23>>],
       [type |-> "function_definition", start_byte |-> 26, end_byte |-> 55, children |-> <<13, 14, 15, 18, 19>>],
       [type |-> "def", start_byte |-> 26, end_byte |-> 29, children |-> <<>>],
       [type |-> "identifier", start_byte |-> 30, end_byte |-> 35, children |-> <<>>],
       [type |-> "parameters", start_byte |-> 35, end_byte |-> 37, children |-> <<16, 17>>],
       [type |-> "(", start_byte |-> 35, end_byte |-> 36, children |-> <<>>],
       [type |-> ")", start_byte |-> 36, end_byte |-> 37, children |-> <<>>],
       [type |-> ":", start_byte |-> 37, end_byte |-> 38, children |-> <<>>],
       [type |-> "block", start_byte |-> 47, end_byte |-> 55, children |-> <<20>>],
       [type |-> "return_statement", start_byte |-> 47, end_byte |-> 55, children |-> <<21, 22>>],
       [type |-> "return", start_byte |-> 47, end_byte |-> 53, children |-> <<>>],
       [type |-> "identifier", start_byte |-> 54, end_byte |-> 55, children |-> <<>>],
       [type |-> "return_statement", start_byte |-> 60, end_byte |-> 72, children |-> <<24, 25>>],
       [type |-> "return", start_byte |-> 60, end_byte |-> 66, children |-> <<>>],
       [type |-> "identifier", start_byte |-> 67, end_byte |-> 72, children |-> <<>>],
       [type |-> "comment", start_byte |-> 73, end_byte |-> 79, children |-> <<>>],
       [type |-> "expression_statement", start_byte |-> 80, end_byte |-> 92, children |-> <<28>>],
       [type |-> "assignment", start_byte |-> 80, end_byte |-> 92, children |-> <<29, 30, 31>>],
       [type |-> "identifier", start_byte |-> 80, end_byte |-> 81, children |-> <<>>],
       [type |-> "=", start_byte |-> 82, end_byte |-> 83, children |-> <<>>],
       [type |-> "call", start_byte |-> 84, end_byte |-> 92, children |-> <<32, 33>>],
       [type |-> "identifier", start_byte |-> 84, end_byte |-> 89, children |-> <<>>],
       [type |-> "argument_list", start_byte |-> 89, end_byte |-> 92, children |-> <<34, 35, 36>>],
       [type |-> "(", start_byte |-> 89, end_byte |-> 90, children |-> <<>>],
       [type |-> "integer", start_byte |-> 90, end_byte |-> 91, children |-> <<>>],
       [type |-> ")", start_byte |-> 91, end_byte |-> 92, children |-> <<>>],
       [type |-> "comment", start_byte |-> 93, end_byte |-> 131, children |-> <<>>] >>

\* 121 bytes, 46 nodes; node 1 is the root, ids in preorder.
\*     import os
\*     class K:
\*         def m(self):
\*             return 1
\*         def n(self):
\*             return 2
\*         def p(self):
\*             return 3
TreeClassSource ==
    <<"i", "m", "p", "o", "r", "t", " ", "o", "s", "\n">>
    \o <<"c", "l", "a", "s", "s", " ", "K", ":", "\n">>
    \o <<" ", " ", " ", " ", "d", "e", "f", " ", "m", "(", "s", "e", "l", "f", ")", ":", "\n">>
    \o <<" ", " ", " ", " ", " ", " ", " ", " ", "r", "e", "t", "u", "r", "n", " ", "1", "\n">>
    \o <<" ", " ", " ", " ", "d", "e", "f", " ", "n", "(", "s", "e", "l", "f", ")", ":", "\n">>
    \o <<" ", " ", " ", " ", " ", " ", " ", " ", "r", "e", "t", "u", "r", "n", " ", "2", "\n">>
    \o <<" ", " ", " ", " ", "d", "e", "f", " ", "p", "(", "s", "e", "l", "f", ")", ":", "\n">>
    \o <<" ", " ", " ", " ", " ", " ", " ", " ", "r", "e", "t", "u", "r", "n", " ", "3", "\n">>

TreeClassNodes ==
    << [type |-> "module", start_byte |-> 0, end_byte |-> 121, children |-> <<2, 6>>],
       [type |-> "import_statement", start_byte |-> 0, end_byte |-> 9, children |-> <<3, 4>>],
       [type |-> "import", start_byte |-> 0, end_byte |-> 6, children |-> <<>>],
       [type |-> "dotted_name", start_byte |-> 7, end_byte |-> 9, children |-> <<5>>],
       [type |-> "identifier", start_byte |-> 7, end_byte |-> 9, children |-> <<>>],
       [type |-> "class_definition", start_byte |-> 10, end_byte |-> 120, children |-> <<7, 8, 9, 10>>],
       [type |-> "class", start_byte |-> 10, end_byte |-> 15, children |-> <<>>],
       [type |-> "identifier", start_byte |-> 16, end_byte |-> 17, children |-> <<>>],
       [type |-> ":", start_byte |-> 17, end_byte |-> 18, children |-> <<>>],
       [type |-> "block", start_byte |-> 23, end_byte |-> 120, children |-> <<11, 23, 35>>],
       [type |-> "function_definition", start_byte |-> 23, end_byte |-> 52, children |-> <<12, 13, 14, 18, 19>>],
       [type |-> "def", start_byte |-> 23, end_byte |-> 26, children |-> <<>>],
       [type |-> "identifier", start_byte |-> 27, end_byte |-> 28, children |-> <<>>],
       [type |-> "parameters", start_byte |-> 28, end_byte |-> 34, children |-> <<15, 16, 17>>],
       [type |-> "(", start_byte |-> 28, end_byte |-> 29, children |-> <<>>],
       [type |-> "identifier", start_byte |-> 29, end_byte |-> 33, children |-> <<>>],
       [type |-> ")", start_byte |-> 33, end_byte |-> 34, children |-> <<>>],
       [type |-> ":", start_byte |-> 34, end_byte |-> 35, children |-> <<>>],
       [type |-> "block", start_byte |-> 44, end_byte |-> 52, children |-> <<20>>],
       [type |-> "return_statement", start_byte |-> 44, end_byte |-> 52, children |-> <<21, 22>>],
       [type |-> "return", start_byte |-> 44, end_byte |-> 50, children |-> <<>>],
       [type |-> "integer", start_byte |-> 51, end_byte |-> 52, children |-> <<>>],
       [type |-> "function_definition", start_byte |-> 57, end_byte |-> 86, children |-> <<24, 25, 26, 30, 31>>],
       [type |-> "def", start_byte |-> 57, end_byte |-> 60, children |-> <<>>],
       [type |-> "identifier", start_byte |-> 61, end_byte |-> 62, children |-> <<>>],
       [type |-> "parameters", start_byte |-> 62, end_byte |-> 68, children |-> <<27, 28, 29>>],
       [type |-> "(", start_byte |-> 62, end_byte |-> 63, children |-> <<>>],
       [type |-> "identifier", start_byte |-> 63, end_byte |-> 67, children |-> <<>>],
       [type |-> ")", start_byte |-> 67, end_byte |-> 68, children |-> <<>>],
       [type |-> ":", start_byte |-> 68, end_byte |-> 69, children |-> <<>>],
       [type |-> "block", start_byte |-> 78, end_byte |-> 86, children |-> <<32>>],
       [type |-> "return_statement", start_byte |-> 78, end_byte |-> 86, children |-> <<33, 34>>],
       [type |-> "return", start_byte |-> 78, end_byte |-> 84, children |-> <<>>],
       [type |-> "integer", start_byte |-> 85, end_byte |-> 86, children |-> <<>>],
       [type |-> "function_definition", start_byte |-> 91, end_byte |-> 120, children |-> <<36, 37, 38, 42, 43>>],
       [type |-> "def", start_byte |-> 91, end_byte |-> 94, children |-> <<>>],
       [type |-> "identifier", start_byte |-> 95, end_byte |-> 96, children |-> <<>>],
       [type |-> "parameters", start_byte |-> 96, end_byte |-> 102, children |-> <<39, 40, 41>>],
       [type |-> "(", start_byte |-> 96, end_byte |-> 97, children |-> <<>>],
       [type |-> "identifier", start_byte |-> 97, end_byte |-> 101, children |-> <<>>],
       [type |-> ")", start_byte |-> 101, end_byte |-> 102, children |-> <<>>],
       [type |-> ":", start_byte |-> 102, end_byte |-> 103, children |-> <<>>],
       [type |-> "block", start_byte |-> 112, end_byte |-> 120, children |-> <<44>>],
       [type |-> "return_statement", start_byte |-> 112, end_byte |-> 120, children |-> <<45, 46>>],
       [type |-> "return", start_byte |-> 112, end_byte |-> 118, children |-> <<>>],
       [type |-> "integer", start_byte |-> 119, end_byte |-> 120, children |-> <<>>] >>

\* 84 bytes, 37 nodes; node 1 is the root, ids in preorder.
\*     total = compute(1, 2)
\*     def f():
\*         return total
\*     def g():
\*         return 0
\*     # tail
\*     # more
TreeFlatSource ==
    <<"t", "o", "t", "a", "l", " ", "=", " ", "c", "o", "m", "p", "u", "t", "e", "(", "1", ",", " ", "2", ")", "\n">>
    \o <<"d", "e", "f", " ", "f", "(", ")", ":", "\n">>
    \o <<" ", " ", " ", " ", "r", "e", "t", "u", "r", "n", " ", "t", "o", "t", "a", "l", "\n">>
    \o <<"d", "e", "f", " ", "g", "(", ")", ":", "\n">>
    \o <<" ", " ", " ", " ", "r", "e", "t", "u", "r", "n", " ", "0", "\n">>
    \o <<"#", " ", "t", "a", "i", "l", "\n">>
    \o <<"#", " ", "m", "o", "r", "e", "\n">>

TreeFlatNodes ==
    << [type |-> "module", start_byte |-> 0, end_byte |-> 84, children |-> <<2, 14, 25, 36, 37>>],
       [type |-> "expression_statement", start_byte |-> 0, end_byte |-> 21, children |-> <<3>>],
       [type |-> "assignment", start_byte |-> 0, end_byte |-> 21, children |-> <<4, 5, 6>>],
       [type |-> "identifier", start_byte |-> 0, end_byte |-> 5, children |-> <<>>],
       [type |-> "=", start_byte |-> 6, end_byte |-> 7, children |-> <<>>],
       [type |-> "call", start_byte |-> 8, end_byte |-> 21, children |-> <<7, 8>>],
       [type |-> "identifier", start_byte |-> 8, end_byte |-> 15, children |-> <<>>],
       [type |-> "argument_list", start_byte |-> 15, end_byte |-> 21, children |-> <<9, 10, 11, 12, 13>>],
       [type |-> "(", start_byte |-> 15, end_byte |-> 16, children |-> <<>>],
       [type |-> "integer", start_byte |-> 16, end_byte |-> 17, children |-> <<>>],
       [type |-> ",", start_byte |-> 17, end_byte |-> 18, children |-> <<>>],
       [type |-> "integer", start_byte |-> 19, end_byte |-> 20, children |-> <<>>],
       [type |-> ")", start_byte |-> 20, end_byte |-> 21, children |-> <<>>],
       [type |-> "function_definition", start_byte |-> 22, end_byte |-> 47, children |-> <<15, 16, 17, 20, 21>>],
       [type |-> "def", start_byte |-> 22, end_byte |-> 25, children |-> <<>>],
       [type |-> "identifier", start_byte |-> 26, end_byte |-> 27, children |-> <<>>],
       [type |-> "parameters", start_byte |-> 27, end_byte |-> 29, children |-> <<18, 19>>],
       [type |-> "(", start_byte |-> 27, end_byte |-> 28, children |-> <<>>],
       [type |-> ")", start_byte |-> 28, end_byte |-> 29, children |-> <<>>],
       [type |-> ":", start_byte |-> 29, end_byte |-> 30, children |-> <<>>],
       [type |-> "block", start_byte |-> 35, end_byte |-> 47, children |-> <<22>>],
       [type |-> "return_statement", start_byte |-> 35, end_byte |-> 47, children |-> <<23, 24>>],
       [type |-> "return", start_byte |-> 35, end_byte |-> 41, children |-> <<>>],
       [type |-> "identifier", start_byte |-> 42, end_byte |-> 47, children |-> <<>>],
       [type |-> "function_definition", start_byte |-> 48, end_byte |-> 69, children |-> <<26, 27, 28, 31, 32>>],
       [type |-> "def", start_byte |-> 48, end_byte |-> 51, children |-> <<>>],
       [type |-> "identifier", start_byte |-> 52, end_byte |-> 53, children |-> <<>>],
       [type |-> "parameters", start_byte |-> 53, end_byte |-> 55, children |-> <<29, 30>>],
       [type |-> "(", start_byte |-> 53, end_byte |-> 54, children |-> <<>>],
       [type |-> ")", start_byte |-> 54, end_byte |-> 55, children |-> <<>>],
       [type |-> ":", start_byte |-> 55, end_byte |-> 56, children |-> <<>>],
       [type |-> "block", start_byte |-> 61, end_byte |-> 69, children |-> <<33>>],
       [type |-> "return_statement", start_byte |-> 61, end_byte |-> 69, children |-> <<34, 35>>],
       [type |-> "return", start_byte |-> 61, end_byte |-> 67, children |-> <<>>],
       [type |-> "integer", start_byte |-> 68, end_byte |-> 69, children |-> <<>>],
       [type |-> "comment", start_byte |-> 70, end_byte |-> 76, children |-> <<>>],
       [type |-> "comment", start_byte |-> 77, end_byte |-> 83, children |-> <<>>] >>

\* The files extract_spans_ast is called on: source text and parse tree.
AstTrees ==
    [TreeNested |-> [source |-> TreeNestedSource, nodes |-> TreeNestedNodes],
     TreeClass  |-> [source |-> TreeClassSource,  nodes |-> TreeClassNodes],
     TreeFlat   |-> [source |-> TreeFlatSource,   nodes |-> TreeFlatNodes]]

AstTreeNames == DOMAIN AstTrees

\* the values of max_middle_lines that extract_spans_ast is called with:
\* 0 (its default, no limit) and a small limit that rejects some spans
AstMaxMiddleLines == {0, 3}

\* _collect_eligible_nodes (lines 14-21): preorder list of the nodes of an
\* eligible type that are wider than 5 bytes.
RECURSIVE _collect_eligible_nodes(_, _, _)
_collect_eligible_nodes(nodes, id, eligible_types) ==
    LET node == nodes[id]
        RECURSIVE Extend(_)
        Extend(k) ==
            IF k > Len(node.children) THEN <<>>
            ELSE _collect_eligible_nodes(nodes, node.children[k], eligible_types)
                 \o Extend(k + 1)
    IN  (IF node.type \in eligible_types /\ node.end_byte - node.start_byte > 5
         THEN <<id>> ELSE <<>>) \o Extend(1)

\* _find_deepest_containing (lines 24-29): descend into the first child whose
\* byte range contains [start, end).
RECURSIVE _find_deepest_containing(_, _, _, _)
_find_deepest_containing(nodes, id, start, end) ==
    LET kids == nodes[id].children
        hits == {k \in 1..Len(kids) : /\ nodes[kids[k]].start_byte <= start
                                      /\ nodes[kids[k]].end_byte >= end}
    IN  IF hits = {} THEN id
        ELSE _find_deepest_containing(nodes, kids[Least(hits)], start, end)

\* _count_functions_in_node (lines 32-37): function-type nodes of a subtree,
\* the node itself included.
RECURSIVE _count_functions_in_node(_, _, _)
_count_functions_in_node(nodes, id, function_types) ==
    LET node == nodes[id]
        RECURSIVE Below(_)
        Below(k) ==
            IF k > Len(node.children) THEN 0
            ELSE _count_functions_in_node(nodes, node.children[k], function_types)
                 + Below(k + 1)
    IN  (IF node.type \in function_types THEN 1 ELSE 0) + Below(1)

\* _build_function_prefix_sums (lines 40-49): the list prefix, of length
\* len(children) + 1; prefix[k] of the code is element k + 1 here.
RECURSIVE _build_function_prefix_sums(_, _, _)
_build_function_prefix_sums(nodes, children, function_types) ==
    IF children = <<>> THEN <<0>>
    ELSE LET n == Len(children)
             prefix == _build_function_prefix_sums(nodes, SubSeq(children, 1, n - 1),
                                                   function_types)
         IN  Append(prefix,
                    prefix[n] + _count_functions_in_node(nodes, children[n],
                                                         function_types))

\* The candidate c_i..c_j of the double loop (lines 86-101), children
\* numbered from 1, is looked at iff the inner loop did not break before j:
\* no range c_i..c_m, m <= j, holds more than one function (line 89).
CandidateVisited(func_prefix, function_types, i, j) ==
    function_types = {} \/ \A m \in i..j : func_prefix[m + 1] - func_prefix[i] <= 1

\* intersection and union of lines 93-94 for the candidate byte range [s, e)
Intersection(s, e, start, end) == Max(0, Min(e, end) - Max(s, start))

Union(s, e, start, end) == Max(e, end) - Min(s, start)

\* iou(a) > iou(b) for candidates <<i, j, intersection, union>>: the
\* quotients of line 97 compared by cross-multiplication (unions are
\* positive, and the integers are far too small for two different quotients
\* to round to the same float).
IouGreater(a, b) == a[3] * b[4] > b[3] * a[4]

\* a is met before b by the loops of lines 86-87
LoopBefore(a, b) == a[1] < b[1] \/ (a[1] = b[1] /\ a[2] < b[2])

\* children (line 72) for the window [start, end): the children of the
\* deepest containing node that are not empty
AlignedChildren(nodes, tree, start, end) ==
    LET lca == _find_deepest_containing(nodes, tree, start, end)
        NonEmpty(c) == nodes[c].end_byte > nodes[c].start_byte
    IN  SelectSeq(nodes[lca].children, NonEmpty)

\* best_ij after the loops of lines 86-101, children numbered from 1: the set
\* is empty for None and holds <<i, j, intersection, union>> otherwise.
\* "iou > best_iou" with best_iou starting at 0.0 keeps the first candidate,
\* in loop order, of the greatest positive IoU.
BestIJ(nodes, tree, start, end, function_types) ==
    LET children == AlignedChildren(nodes, tree, start, end)
        n == Len(children)
        func_prefix == _build_function_prefix_sums(nodes, children, function_types)
        visited == {c \in (1..n) \X (1..n) :
                        /\ c[1] <= c[2]
                        /\ CandidateVisited(func_prefix, function_types, c[1], c[2])}
        scored == {<<c[1], c[2],
                     Intersection(nodes[children[c[1]]].start_byte,
                                  nodes[children[c[2]]].end_byte, start, end),
                     Union(nodes[children[c[1]]].start_byte,
                           nodes[children[c[2]]].end_byte, start, end)>> :
                      c \in visited}
        improving == {c \in scored : c[4] # 0 /\ c[3] > 0}
    IN  {c \in improving :
            \A d \in improving :
                /\ ~IouGreater(d, c)
                /\ LoopBefore(d, c) => IouGreater(c, d)}

\* the helper of lines 52-56 without its loop: the end index is returned as
\* it came
_trim_trailing_comments_Keep(nodes, children, i, j) == j

\* _trim_trailing_comments (lines 52-56).  Children are numbered from 1 here.
RECURSIVE _trim_trailing_comments(_, _, _, _)
_trim_trailing_comments(nodes, children, i, j) ==
    IF j > i /\ nodes[children[j]].type = "comment"
    THEN _trim_trailing_comments(nodes, children, i, j - 1)
    ELSE j

\* _aligned_span_from_random (lines 59-112).  None is <<>>, a range is
\* <<s, e>>.
_aligned_span_from_random(nodes, tree, start, end, function_types) ==
    LET lca == _find_deepest_containing(nodes, tree, start, end)
        children == AlignedChildren(nodes, tree, start, end)
        best == BestIJ(nodes, tree, start, end, function_types)
        best_ij == CHOOSE c \in best : TRUE
        j == _trim_trailing_comments(nodes, children, best_ij[1], best_ij[2])
    IN  IF children = <<>> THEN <<nodes[lca].start_byte, nodes[lca].end_byte>>
        ELSE IF best = {}
             THEN IF function_types # {} THEN <<>>
                  ELSE <<nodes[lca].start_byte, nodes[lca].end_byte>>
             ELSE <<nodes[children[best_ij[1]]].start_byte, nodes[children[j]].end_byte>>

\* extract_spans_ast, lines 134-139.  The pool sources are ASCII, so
\* len(source_bytes) is the length of the text.
target_count(t) == Max(2, Len(AstTrees[t].source) \div 500)

single_count(t) == target_count(t) \div 2

aligned_count(t) == target_count(t) - single_count(t)

\* eligible (line 144)
Eligible(t) == _collect_eligible_nodes(AstTrees[t].nodes, 1, ast_eligible_types)

\* span_len of line 172
SpanLens(t) == 20..Max(21, Len(AstTrees[t].source) \div 4)

\* max_start of line 173
MaxStart(t, span_len) == Len(AstTrees[t].source) - span_len

\* result (line 179)
AlignedResult(t, start, end) ==
    _aligned_span_from_random(AstTrees[t].nodes, 1, start, end, ast_function_types)

\* The CodeSpan of lines 160-167; start_point[0] and end_point[0] are the
\* rows of the node's first and last byte.  The name field is left out: no
\* consumer of the span reads it.
SingleNodeSpan(t, id) ==
    LET node == AstTrees[t].nodes[id]
    IN  CodeSpan("ast_single_node",
                 LineOf(AstTrees[t].source, node.start_byte),
                 LineOf(AstTrees[t].source, node.end_byte),
                 node.start_byte, node.end_byte, NoFilters)

\* The CodeSpan of lines 189-197.
AlignedSpan(t, s, e) ==
    CodeSpan("ast_aligned_span",
             LineOf(AstTrees[t].source, s), LineOf(AstTrees[t].source, e),
             s, e, NoFilters)

\* The rejections of lines 180-187 without the upper bound of line 183.
AlignedRejected_NoHalfCap(t, result, max_lines) ==
    \/ result = <<>>
    \/ result[2] - result[1] < 5
    \/ /\ max_lines > 0
       /\ CountNL(Slice(AstTrees[t].source, result[1], result[2])) + 1 > max_lines

\* The rejections of lines 180-187.
AlignedRejected(t, result, max_lines) ==
    \/ result = <<>>
    \/ result[2] - result[1] < 5
    \/ result[2] - result[1] > Len(AstTrees[t].source) \div 2
    \/ /\ max_lines > 0
       /\ CountNL(Slice(AstTrees[t].source, result[1], result[2])) + 1 > max_lines

InitAst ==
    /\ ast_tree \in AstTreeNames
    /\ ast_max_middle_lines \in AstMaxMiddleLines
    /\ ast_spans = <<>>
    /\ ast_left = aligned_count(ast_tree)
    /\ ast_window = <<>>
    /\ ast_result = <<>>
    /\ ast_pc = "single"
    /\ AstRestIdle

\* Lines 143-167: random.choices draws k nodes with replacement; every
\* eligible node has a positive weight.
MaskSingleNodes ==
    /\ ast_pc = "single"
    /\ LET eligible == Eligible(ast_tree)
           k == Min(single_count(ast_tree), Len(eligible))
       IN  \E chosen \in [1..k -> 1..Len(eligible)] :
               ast_spans' = [i \in 1..k |->
                                SingleNodeSpan(ast_tree, eligible[chosen[i]])]
    /\ ast_pc' = "aligned"
    /\ UNCHANGED <<ast_tree, ast_max_middle_lines, ast_left, ast_window, ast_result>>
    /\ UNCHANGED astRest

\* One iteration of the loop of lines 170-197.
AlignedIteration ==
    /\ ast_pc = "aligned"
    /\ ast_left > 0
    /\ ast_left' = ast_left - 1
    /\ \E span_len \in SpanLens(ast_tree) :
           IF MaxStart(ast_tree, span_len) < 1
           THEN UNCHANGED <<ast_window, ast_result, ast_spans>>
           ELSE \E start \in 1..MaxStart(ast_tree, span_len) :
                    LET end == start + span_len
                        result == AlignedResult(ast_tree, start, end)
                    IN  /\ ast_window' = <<start, end>>
                        /\ ast_result' = result
                        /\ ast_spans' =
                               IF AlignedRejected(ast_tree, result,
                                                  ast_max_middle_lines)
                               THEN ast_spans
                               ELSE Append(ast_spans,
                                           AlignedSpan(ast_tree, result[1],
                                                       result[2]))
    /\ UNCHANGED <<ast_tree, ast_max_middle_lines, ast_pc>>
    /\ UNCHANGED astRest

\* Line 199.
ReturnSpans ==
    /\ ast_pc = "aligned"
    /\ ast_left = 0
    /\ ast_pc' = "done"
    /\ UNCHANGED <<ast_tree, ast_max_middle_lines, ast_spans, ast_left,
                   ast_window, ast_result>>
    /\ UNCHANGED astRest

NextAst == MaskSingleNodes \/ AlignedIteration \/ ReturnSpans

SpecAst == InitAst /\ [][NextAst]_vars

\* ---------------------------------------------------------------------------
\* C15: aligned spans and function-type nodes
\* ---------------------------------------------------------------------------

\* the function-type nodes of a file whose byte range lies inside [s, e)
CoveredFunctions(t, s, e) ==
    {id \in DOMAIN AstTrees[t].nodes :
        /\ AstTrees[t].nodes[id].type \in ast_function_types
        /\ s <= AstTrees[t].nodes[id].start_byte
        /\ AstTrees[t].nodes[id].end_byte <= e}

\* C15: whatever window was drawn, the byte range that
\* _aligned_span_from_random returned for it (with the function types of the
\* language configured) covers at most one function-type node of the tree,
\* be it a child of the chosen node or nested deeper.
C15_AtMostOneFunction ==
    (ast_pc \in {"aligned", "done"} /\ ast_result # <<>>) =>
        Cardinality(CoveredFunctions(ast_tree, ast_result[1], ast_result[2])) <= 1

\* ---------------------------------------------------------------------------
\* C16: offsets of the spans of extract_spans_ast
\* ---------------------------------------------------------------------------

\* 0 <= start_byte < end_byte <= len(source_bytes)
SpanInFile(t, span) ==
    /\ 0 <= span.start_byte
    /\ span.start_byte < span.end_byte
    /\ span.end_byte <= Len(AstTrees[t].source)

\* end_byte - start_byte <= len(source_bytes) / 2
SpanAtMostHalf(t, span) ==
    2 * (span.end_byte - span.start_byte) <= Len(AstTrees[t].source)

DocLanguages ==
    [python |-> [name |-> "python",
                 doc_comment_openers |-> {<<"\"", "\"", "\"">>, <<"'", "'", "'">>},
                 ast_function_types |-> {"function_definition"}],
     php    |-> [name |-> "php",
                 doc_comment_openers |-> {<<"/", "*", "*">>},
                 ast_function_types |-> {"method_declaration", "function_definition"}]]

\* 92 characters, 22 nodes; node 1 is the root, ids in preorder.
\*     <?php
\*     class A
\*     {
\*       /**
\*        * Sum.
\*        * @param $a
\*        * @return int
\*        */
\*       function f($a) {}
\*     }
DocTagsText ==
    <<"<", "?", "p", "h", "p", "\n">>
    \o <<"c", "l", "a", "s", "s", " ", "A", "\n">>
    \o <<"{", "\n">>
    \o <<" ", " ", "/", "*", "*", "\n">>
    \o <<" ", " ", " ", "*", " ", "S", "u", "m", ".", "\n">>
    \o <<" ", " ", " ", "*", " ", "@", "p", "a", "r", "a", "m", " ", "$", "a", "\n">>
    \o <<" ", " ", " ", "*", " ", "@", "r", "e", "t", "u", "r", "n", " ", "i", "n", "t", "\n">>
    \o <<" ", " ", " ", "*", "/", "\n">>
    \o <<" ", " ", "f", "u", "n", "c", "t", "i", "o", "n", " ", "f", "(", "$", "a", ")", " ", "{", "}", "\n">>
    \o <<"}", "\n">>

DocTagsNodes ==
    << [type |-> "program", start |-> 0, end |-> 92, children |-> <<2, 3>>],
       [type |-> "php_tag", start |-> 0, end |-> 5, children |-> <<>>],
       [type |-> "class_declaration", start |-> 6, end |-> 91, children |-> <<4, 5, 6>>],
       [type |-> "class", start |-> 6, end |-> 11, children |-> <<>>],
       [type |-> "name", start |-> 12, end |-> 13, children |-> <<>>],
       [type |-> "declaration_list", start |-> 14, end |-> 91, children |-> <<7, 8, 9, 22>>],
       [type |-> "{", start |-> 14, end |-> 15, children |-> <<>>],
       [type |-> "comment", start |-> 18, end |-> 69, children |-> <<>>],
       [type |-> "method_declaration", start |-> 72, end |-> 89, children |-> <<10, 11, 12, 19>>],
       [type |-> "function", start |-> 72, end |-> 80, children |-> <<>>],
       [type |-> "name", start |-> 81, end |-> 82, children |-> <<>>],
       [type |-> "formal_parameters", start |-> 82, end |-> 86, children |-> <<13, 14, 18>>],
       [type |-> "(", start |-> 82, end |-> 83, children |-> <<>>],
       [type |-> "simple_parameter", start |-> 83, end |-> 85, children |-> <<15>>],
       [type |-> "variable_name", start |-> 83, end |-> 85, children |-> <<16, 17>>],
       [type |-> "$", start |-> 83, end |-> 84, children |-> <<>>],
       [type |-> "name", start |-> 84, end |-> 85, children |-> <<>>],
       [type |-> ")", start |-> 85, end |-> 86, children |-> <<>>],
       [type |-> "compound_statement", start |-> 87, end |-> 89, children |-> <<20, 21>>],
       [type |-> "{", start |-> 87, end |-> 88, children |-> <<>>],
       [type |-> "}", start |-> 88, end |-> 89, children |-> <<>>],
       [type |-> "}", start |-> 90, end |-> 91, children |-> <<>>] >>

\* characters of the text that may be two-byte characters: 'A', 'u', 'i'
DocTagsAccents == {13, 29, 61}

\* 46 characters, 13 nodes; node 1 is the root, ids in preorder.
\*     <?php
\*     /**
\*      * Run.
\*      */
\*     // note
\*     function g() {}
DocNoteText ==
    <<"<", "?", "p", "h", "p", "\n">>
    \o <<"/", "*", "*", "\n">>
    \o <<" ", "*", " ", "R", "u", "n", ".", "\n">>
    \o <<" ", "*", "/", "\n">>
    \o <<"/", "/", " ", "n", "o", "t", "e", "\n">>
    \o <<"f", "u", "n", "c", "t", "i", "o", "n", " ", "g", "(", ")", " ", "{", "}", "\n">>

DocNoteNodes ==
    << [type |-> "program", start |-> 0, end |-> 46, children |-> <<2, 3, 4, 5>>],
       [type |-> "php_tag", start |-> 0, end |-> 5, children |-> <<>>],
       [type |-> "comment", start |-> 6, end |-> 21, children |-> <<>>],
       [type |-> "comment", start |-> 22, end |-> 29, children |-> <<>>],
       [type |-> "function_definition", start |-> 30, end |-> 45, children |-> <<6, 7, 8, 11>>],
       [type |-> "function", start |-> 30, end |-> 38, children |-> <<>>],
       [type |-> "name", start |-> 39, end |-> 40, children |-> <<>>],
       [type |-> "formal_parameters", start |-> 40, end |-> 42, children |-> <<9, 10>>],
       [type |-> "(", start |-> 40, end |-> 41, children |-> <<>>],
       [type |-> ")", start |-> 41, end |-> 42, children |-> <<>>],
       [type |-> "compound_statement", start |-> 43, end |-> 45, children |-> <<12, 13>>],
       [type |-> "{", start |-> 43, end |-> 44, children |-> <<>>],
       [type |-> "}", start |-> 44, end |-> 45, children |-> <<>>] >>

\* characters of the text that may be two-byte characters: 'R', 'u', 'o'
DocNoteAccents == {14, 15, 27}

\* 58 characters, 21 nodes; node 1 is the root, ids in preorder.
\*     <?php
\*     /** One. */
\*     function h() {}
\*     /**
\*      * Var.
\*      */
\*     $x = 1;
DocMixedText ==
    <<"<", "?", "p", "h", "p", "\n">>
    \o <<"/", "*", "*", " ", "O", "n", "e", ".", " ", "*", "/", "\n">>
    \o <<"f", "u", "n", "c", "t", "i", "o", "n", " ", "h", "(", ")", " ", "{", "}", "\n">>
    \o <<"/", "*", "*", "\n">>
    \o <<" ", "*", " ", "V", "a", "r", ".", "\n">>
    \o <<" ", "*", "/", "\n">>
    \o <<"$", "x", " ", "=", " ", "1", ";", "\n">>

DocMixedNodes ==
    << [type |-> "program", start |-> 0, end |-> 58, children |-> <<2, 3, 4, 13, 14>>],
       [type |-> "php_tag", start |-> 0, end |-> 5, children |-> <<>>],
       [type |-> "comment", start |-> 6, end |-> 17, children |-> <<>>],
       [type |-> "function_definition", start |-> 18, end |-> 33, children |-> <<5, 6, 7, 10>>],
       [type |-> "function", start |-> 18, end |-> 26, children |-> <<>>],
       [type |-> "name", start |-> 27, end |-> 28, children |-> <<>>],
       [type |-> "formal_parameters", start |-> 28, end |-> 30, children |-> <<8, 9>>],
       [type |-> "(", start |-> 28, end |-> 29, children |-> <<>>],
       [type |-> ")", start |-> 29, end |-> 30, children |-> <<>>],
       [type |-> "compound_statement", start |-> 31, end |-> 33, children |-> <<11, 12>>],
       [type |-> "{", start |-> 31, end |-> 32, children |-> <<>>],
       [type |-> "}", start |-> 32, end |-> 33, children |-> <<>>],
       [type |-> "comment", start |-> 34, end |-> 49, children |-> <<>>],
       [type |-> "expression_statement", start |-> 50, end |-> 57, children |-> <<15, 21>>],
       [type |-> "assignment_expression", start |-> 50, end |-> 56, children |-> <<16, 19, 20>>],
       [type |-> "variable_name", start |-> 50, end |-> 52, children |-> <<17, 18>>],
       [type |-> "$", start |-> 50, end |-> 51, children |-> <<>>],
       [type |-> "name", start |-> 51, end |-> 52, children |-> <<>>],
       [type |-> "=", start |-> 53, end |-> 54, children |-> <<>>],
       [type |-> "integer", start |-> 55, end |-> 56, children |-> <<>>],
       [type |-> ";", start |-> 56, end |-> 57, children |-> <<>>] >>

\* characters of the text that may be two-byte characters: 'O', 'h', 'a'
DocMixedAccents == {11, 28, 43}

\* 53 characters, 18 nodes; node 1 is the root, ids in preorder.
\*     def f(a):
\*         """Sum.
\*     
\*         more
\*         """
\*         return a
DocPythonText ==
    <<"d", "e", "f", " ", "f", "(", "a", ")", ":", "\n">>
    \o <<" ", " ", " ", " ", "\"", "\"", "\"", "S", "u", "m", ".", "\n">>
    \o <<"\n">>
    \o <<" ", " ", " ", " ", "m", "o", "r", "e", "\n">>
    \o <<" ", " ", " ", " ", "\"", "\"", "\"", "\n">>
    \o <<" ", " ", " ", " ", "r", "e", "t", "u", "r", "n", " ", "a", "\n">>

DocPythonNodes ==
    << [type |-> "module", start |-> 0, end |-> 53, children |-> <<2>>],
       [type |-> "function_definition", start |-> 0, end |-> 52, children |-> <<3, 4, 5, 9, 10>>],
       [type |-> "def", start |-> 0, end |-> 3, children |-> <<>>],
       [type |-> "identifier", start |-> 4, end |-> 5, children |-> <<>>],
       [type |-> "parameters", start |-> 5, end |-> 8, children |-> <<6, 7, 8>>],
       [type |-> "(", start |-> 5, end |-> 6, children |-> <<>>],
       [type |-> "identifier", start |-> 6, end |-> 7, children |-> <<>>],
       [type |-> ")", start |-> 7, end |-> 8, children |-> <<>>],
       [type |-> ":", start |-> 8, end |-> 9, children |-> <<>>],
       [type |-> "block", start |-> 14, end |-> 52, children |-> <<11, 16>>],
       [type |-> "expression_statement", start |-> 14, end |-> 39, children |-> <<12>>],
       [type |-> "string", start |-> 14, end |-> 39, children |-> <<13, 14, 15>>],
       [type |-> "string_start", start |-> 14, end |-> 17, children |-> <<>>],
       [type |-> "string_content", start |-> 17, end |-> 36, children |-> <<>>],
       [type |-> "string_end", start |-> 36, end |-> 39, children |-> <<>>],
       [type |-> "return_statement", start |-> 44, end |-> 52, children |-> <<17, 18>>],
       [type |-> "return", start |-> 44, end |-> 50, children |-> <<>>],
       [type |-> "identifier", start |-> 51, end |-> 52, children |-> <<>>] >>

\* characters of the text that may be two-byte characters: 'f', 'u', 'o'
DocPythonAccents == {5, 19, 29}

DocCases ==
    [DocTags   |-> [text |-> DocTagsText, nodes |-> DocTagsNodes,
                    accents |-> DocTagsAccents, lang |-> "php"],
     DocNote   |-> [text |-> DocNoteText, nodes |-> DocNoteNodes,
                    accents |-> DocNoteAccents, lang |-> "php"],
     DocMixed  |-> [text |-> DocMixedText, nodes |-> DocMixedNodes,
                    accents |-> DocMixedAccents, lang |-> "php"],
     DocPython |-> [text |-> DocPythonText, nodes |-> DocPythonNodes,
                    accents |-> DocPythonAccents, lang |-> "python"]]

DocCaseNames == DOMAIN DocCases

\* source: the text with the chosen characters replaced by two-byte ones
DocSource(c, accents) ==
    [i \in 1..Len(DocCases[c].text) |->
        IF i \in accents THEN "E2" ELSE DocCases[c].text[i]]

\* tree: tree-sitter's nodes, offsets in bytes of source.encode("utf-8")
DocTree(c, accents) ==
    LET src == DocSource(c, accents)
        nodes == DocCases[c].nodes
    IN  [id \in DOMAIN nodes |->
            [type |-> nodes[id].type,
             start_byte |-> ByteOffset(src, nodes[id].start),
             end_byte |-> ByteOffset(src, nodes[id].end),
             children |-> nodes[id].children]]

\* The number of characters that the first n bytes of source_bytes decode
\* to with errors="replace"; a character cut in two decodes to one
\* replacement character.
RECURSIVE DecodedChars(_, _, _, _)
DecodedChars(src, n, chars, bytes) ==
    IF bytes >= n \/ chars = Len(src) THEN chars
    ELSE DecodedChars(src, n, chars + 1, bytes + ByteWidth(src[chars + 1]))

CharsBefore(src, n) == DecodedChars(src, n, 0, 0)

\* source_bytes[a:b].decode("utf-8", errors="replace") for offsets on
\* character boundaries
DecodeSlice(src, a, b) == Slice(src, CharsBefore(src, a), CharsBefore(src, b))

\* The stored offset is the byte offset itself.
_byte_to_char_Identity(src, byte_offset) == byte_offset

\* _byte_to_char (lines 274-276)
_byte_to_char(src, byte_offset) == Len(DecodeSlice(src, 0, byte_offset))

\* node.parent; 0 is None
Parent(nodes, id) ==
    LET ps == {p \in DOMAIN nodes : \E k \in 1..Len(nodes[p].children) :
                                        nodes[p].children[k] = id}
    IN  IF ps = {} THEN 0 ELSE CHOOSE p \in ps : TRUE

\* any(text.startswith(op) for op in openers), text stripped (lines 239-240,
\* 245-246)
StartsWithOpener(src, node, openers) ==
    LET text == Strip(DecodeSlice(src, node.start_byte, node.end_byte))
    IN  \E op \in openers : StartsWithAt(text, op, 0)

\* Lines 226-241: the function a Python docstring statement belongs to, 0 if
\* the node is not the docstring of a function.
PythonDocFunction(lc, src, nodes, id) ==
    LET block == Parent(nodes, id)
        grandparent == IF block = 0 THEN 0 ELSE Parent(nodes, block)
        stmts == IF block = 0 THEN {}
                 ELSE {k \in 1..Len(nodes[block].children) :
                          nodes[nodes[block].children[k]].type \notin
                              {":", "NEWLINE", "INDENT", "DEDENT", "comment"}}
    IN  IF /\ nodes[id].type = "expression_statement"
           /\ block # 0
           /\ nodes[block].type = "block"
           /\ grandparent # 0
           /\ nodes[grandparent].type \in lc.ast_function_types
           /\ stmts # {}
           /\ nodes[block].children[Least(stmts)] = id
           /\ StartsWithOpener(src, nodes[id], lc.doc_comment_openers)
        THEN grandparent
        ELSE 0

\* Lines 244-261: the function-type sibling that follows a doc comment, with
\* nothing but comments in between; 0 if there is none.
CommentDocFunction(lc, src, nodes, id) ==
    LET parent == Parent(nodes, id)
        siblings == nodes[parent].children
        idx == CHOOSE i \in 1..Len(siblings) : siblings[i] = id
        after == {j \in (idx + 1)..Len(siblings) :
                     nodes[siblings[j]].type # "comment"}
    IN  IF /\ nodes[id].type = "comment"
           /\ parent # 0
           /\ StartsWithOpener(src, nodes[id], lc.doc_comment_openers)
           /\ after # {}
           /\ nodes[siblings[Least(after)]].type \in lc.ast_function_types
        THEN siblings[Least(after)]
        ELSE 0

\* _collect_doc_nodes (lines 225-264): the pairs (doc_node, func_node)
DocFunction(lc, src, nodes, id) ==
    IF lc.name = "python" THEN PythonDocFunction(lc, src, nodes, id)
    ELSE CommentDocFunction(lc, src, nodes, id)

doc_nodes(lc, src, nodes) ==
    {<<id, DocFunction(lc, src, nodes, id)>> :
        id \in {d \in DOMAIN nodes : DocFunction(lc, src, nodes, d) # 0}}

\* re.search(r"@\w+", line), line 288
HasTag(line) ==
    \E k \in 1..(Len(line) - 1) : line[k] = "@" /\ IsWordChar(line[k + 1])

\* tag_line_indices (lines 284-289), 0-based
tag_line_indices(doc_lines) ==
    {i \in 1..(Len(doc_lines) - 1) : HasTag(doc_lines[i + 1])}

\* sum(len(l.encode("utf-8")) + 1 for l in doc_lines[:n]), lines 298, 303
RECURSIVE EncodedLen(_, _)
EncodedLen(doc_lines, n) ==
    IF n = 0 THEN 0
    ELSE EncodedLen(doc_lines, n - 1) + ByteLen(doc_lines[n]) + 1

\* One pass of the loop of lines 278-324 for doc_node: the span appended, or
\* <<>> when line 308 skips the node.  split_line_idx is the tag line drawn
\* in case B and 0 in case A, where the span starts after the opener line.
DocSpan(src, doc_node, split_line_idx) ==
    LET doc_text == DecodeSlice(src, doc_node.start_byte, doc_node.end_byte)
        doc_lines == SplitNL(doc_text)
        start_byte == doc_node.start_byte
                      + EncodedLen(doc_lines, IF split_line_idx > 0
                                              THEN split_line_idx ELSE 1)
        end_byte == doc_node.end_byte
        start_char == _byte_to_char(src, start_byte)
        end_char == _byte_to_char(src, end_byte)
    IN  IF end_byte <= start_byte THEN <<>>
        ELSE <<CodeSpan("dev_doc_comment",
                        LineOf(src, start_char), LineOf(src, end_char),
                        start_char, end_char, {"comment_only"})>>

\* target_count, line 271
DocTargetCount(src) == Max(1, Len(SplitNL(src)) \div 40)

\* random.sample(doc_nodes, k), line 272: k different pairs in any order
Samples(pairs, k) ==
    {chosen \in [1..k -> pairs] :
        \A i, j \in 1..k : chosen[i] = chosen[j] => i = j}

\* The tag lines the loop can draw for each chosen node: 0 (case A), or,
\* when the comment has tag lines, one of them (case B, lines 291-296).
SplitChoices(src, nodes, chosen) ==
    {pick \in [DOMAIN chosen -> 0..Len(src)] :
        \A i \in DOMAIN chosen :
            pick[i] \in {0} \cup
                tag_line_indices(SplitNL(DecodeSlice(src,
                    nodes[chosen[i][1]].start_byte, nodes[chosen[i][1]].end_byte)))}

RECURSIVE DocSpans(_, _, _, _, _)
DocSpans(src, nodes, chosen, pick, n) ==
    IF n = 0 THEN <<>>
    ELSE DocSpans(src, nodes, chosen, pick, n - 1)
         \o DocSpan(src, nodes[chosen[n][1]], pick[n])

InitDoc ==
    /\ doc_case \in DocCaseNames
    /\ doc_accents \in SUBSET DocCases[doc_case].accents
    /\ doc_has_tree \in BOOLEAN
    /\ doc_chosen = <<>>
    /\ doc_spans = <<>>
    /\ doc_pc = "called"
    /\ DocRestIdle

\* generate_doc_comment_spans, lines 201-326
GenerateDocCommentSpans ==
    /\ doc_pc = "called"
    /\ doc_pc' = "returned"
    /\ LET lc == DocLanguages[DocCases[doc_case].lang]
           src == DocSource(doc_case, doc_accents)
           nodes == DocTree(doc_case, doc_accents)
           pairs == doc_nodes(lc, src, nodes)
       IN  IF ~doc_has_tree \/ lc.doc_comment_openers = {} \/ pairs = {}
           THEN doc_chosen' = <<>> /\ doc_spans' = <<>>
           ELSE \E chosen \in Samples(pairs, Min(DocTargetCount(src), Cardinality(pairs))) :
                    \E pick \in SplitChoices(src, nodes, chosen) :
                        /\ doc_chosen' = chosen
                        /\ doc_spans' = DocSpans(src, nodes, chosen, pick, Len(chosen))
    /\ UNCHANGED <<doc_case, doc_accents, doc_has_tree>>
    /\ UNCHANGED docRest

NextDoc == GenerateDocCommentSpans

SpecDoc == InitDoc /\ [][NextDoc]_vars

\* ---------------------------------------------------------------------------
\* C17: doc-comment spans on sources with multi-byte characters
\* ---------------------------------------------------------------------------

\* The spans of a returned call paired with the (doc_node, func_node) they
\* were made from; nodes as the text's character offsets.
DocEmitted ==
    IF doc_pc # "returned" THEN {}
    ELSE {e \in {<<doc_spans[i], DocCases[doc_case].nodes[doc_chosen[k][1]],
                   DocCases[doc_case].nodes[doc_chosen[k][2]]>> :
                    i \in 1..Len(doc_spans), k \in 1..Len(doc_chosen)} :
             e[2].start < e[1].start_byte /\ e[1].start_byte < e[2].end}

\* every span was paired with its doc node
DocAllPaired ==
    \A i \in 1..Len(doc_spans) : \E e \in DocEmitted : e[1] = doc_spans[i]

\* source[start:end] starts at a line start inside the doc comment and ends
\* exactly at the comment's end
InsideDoc(span, doc) ==
    /\ doc.start < span.start_byte
    /\ span.start_byte < span.end_byte
    /\ span.end_byte = doc.end
    /\ DocSource(doc_case, doc_accents)[span.start_byte] = "\n"

\* source[start:end] holds no character of the function
NoFunctionText(span, func) ==
    span.end_byte <= func.start \/ func.end <= span.start_byte

\* source[end:].lstrip() begins with the function declaration
SuffixIsFunction(span, func) ==
    SkipSpace(DocSource(doc_case, doc_accents), span.end_byte) = func.start

\* C17 as stated: every dev_doc_comment span, read as character offsets,
\* lies inside its doc comment and ends at the comment's end, holds no text
\* of the function, is followed (after whitespace) by the function
\* declaration, and skips the comment_only filter.
C17_Original ==
    /\ doc_pc = "returned" => DocAllPaired
    /\ \A e \in DocEmitted :
           /\ InsideDoc(e[1], e[2])
           /\ NoFunctionText(e[1], e[3])
           /\ SuffixIsFunction(e[1], e[3])
           /\ e[1].skip_quality_filters = {"comment_only"}

\* the doc node is a comment and the function is the very next sibling
DocDirectlyBeforeFunction(doc, func) ==
    /\ doc.type = "comment"
    /\ \E p \in DOMAIN DocCases[doc_case].nodes :
           \E k \in 1..(Len(DocCases[doc_case].nodes[p].children) - 1) :
               /\ DocCases[doc_case].nodes[DocCases[doc_case].nodes[p].children[k]] = doc
               /\ DocCases[doc_case].nodes[DocCases[doc_case].nodes[p].children[k + 1]] = func

\* C17: every dev_doc_comment span, read as character offsets, starts at a
\* line start inside its doc comment (or docstring), ends exactly at its end
\* and skips the comment_only filter, whatever multi-byte characters the
\* source holds; when the doc node is a comment directly followed by the
\* function, the span holds no text of the function and the suffix begins,
\* after whitespace, with the function declaration.
C17_DocSpanOffsets ==
    /\ doc_pc = "returned" => DocAllPaired
    /\ \A e \in DocEmitted :
           /\ InsideDoc(e[1], e[2])
           /\ e[1].skip_quality_filters = {"comment_only"}
           /\ DocDirectlyBeforeFunction(e[2], e[3]) =>
                  NoFunctionText(e[1], e[3]) /\ SuffixIsFunction(e[1], e[3])

\* a span was made at a tag line of a comment directly followed by its
\* function, in a source with a two-byte character before the span and
\* another inside it
C17_Witness ==
    \E e \in DocEmitted :
        /\ DocDirectlyBeforeFunction(e[2], e[3])
        /\ e[1].start_line > LineOf(DocCases[doc_case].text, e[2].start) + 1
        /\ \E a \in doc_accents : a <= e[1].start_byte
        /\ \E a \in doc_accents : e[1].start_byte < a /\ a <= e[1].end_byte

\* ---------------------------------------------------------------------------
\* Context server: src/python/fimcontextserver/_server.py (Server.run,
\* Server._handle_line) and _handler.py (Handler).
\* An input line is given by what json.loads makes of it:
\*   blank      nothing but whitespace
\*   malformed  json.loads raises JSONDecodeError
\*   value      a JSON value that is not an object ([] or 42)
\*   object     a JSON object; id is request.get("id") ("" for None), method
\*              is request.get("method") ("" for None or the empty string;
\*              "[list]" for a value that cannot be a dict key), params_ok
\*              tells whether the handler finds the keys it reads
\* ---------------------------------------------------------------------------

ServerLine(kind, id, method, params_ok) ==
    [kind |-> kind, id |-> id, method |-> method, params_ok |-> params_ok,
     root |-> ""]

\* request.get("id") when the object has no id
NoId == ""

LineBlank == ServerLine("blank", NoId, "", TRUE)

LineMalformed == ServerLine("malformed", NoId, "", TRUE)

LineValue == ServerLine("value", NoId, "", TRUE)

Request(id, method, params_ok) == ServerLine("object", id, method, params_ok)

\* an initialize request with params.project_root = root
InitializeRequest(id, root) ==
    [Request(id, "initialize", TRUE) EXCEPT !.root = root]

\* the lines a client can send
ServerLines ==
    {LineBlank, LineMalformed, LineValue,
     Request("1", "", TRUE), Request("1", "status", TRUE),
     Request("1", "[list]", TRUE),
     InitializeRequest("1", "/a"), InitializeRequest("4", "/b"),
     Request(NoId, "initialize", FALSE),
     Request("2", "getContext", TRUE), Request("2", "getContext", FALSE),
     Request("3", "shutdown", TRUE)}

MaxLines == 3

ServerInputs == UNION {[1..n -> ServerLines] : n \in 0..MaxLines}

\* the keys of dispatch, lines 55-59
DispatchMethods == {"initialize", "getContext", "shutdown"}

\* responses of _handle_line; result is "" where the response has none
ErrorResponse(id, code) ==
    [id |-> id, error |-> TRUE, code |-> code, result |-> ""]

ResultResponse(id, result) ==
    [id |-> id, error |-> FALSE, code |-> 0, result |-> result]

\* Handler.handle_initialize (lines 31-56) raises when params lacks
\* project_root or names an unknown language.
InitializeRaises(line) == ~line.params_ok

\* A plausible slip: the old state is dropped before the new one is built.
StateAfterInitialize_Cleared(line, state) ==
    IF InitializeRaises(line) THEN "none" ELSE line.root

\* Handler._state after handle_initialize: the assignment of lines 48-53
\* stands after every statement that can raise (lines 32-46)
StateAfterInitialize(line, state) ==
    IF InitializeRaises(line) THEN state ELSE line.root

\* the context handle_get_context returns, named by the project whose
\* source_files, root and index it is built from (lines 68-100)
ContextOf(state) == state

\* Handler.handle_get_context (lines 58-102) raises when the handler has no
\* project state (lines 59-60) or params lacks filepath or content.
GetContextRaises(line, state) == state = "none" \/ ~line.params_ok

InitServer ==
    /\ srv_input \in ServerInputs
    /\ srv_next = 1
    /\ srv_output = <<>>
    /\ srv_state = "none"
    /\ srv_should_exit = FALSE
    /\ srv_pc = "running"
    /\ SrvRestIdle

\* the line that the next iteration of the loop of line 18 reads
HasLine == srv_pc = "running" /\ srv_next <= Len(srv_input)

Line == srv_input[srv_next]

\* the rest of an iteration that wrote `response` (lines 24-29)
Respond(response, should_exit) ==
    /\ srv_output' = Append(srv_output, response)
    /\ srv_next' = srv_next + 1
    /\ srv_pc' = IF should_exit THEN "stopped" ELSE "running"

\* lines 19-21
SkipBlank ==
    /\ HasLine
    /\ Line.kind = "blank"
    /\ srv_next' = srv_next + 1
    /\ UNCHANGED <<srv_input, srv_output, srv_state, srv_should_exit, srv_pc>>
    /\ UNCHANGED srvRest

\* lines 32-40
ParseError ==
    /\ HasLine
    /\ Line.kind = "malformed"
    /\ Respond(ErrorResponse(NoId, -32700), srv_should_exit)
    /\ UNCHANGED <<srv_input, srv_state, srv_should_exit>>
    /\ UNCHANGED srvRest

\* line 42: request.get on a list or a number raises AttributeError outside
\* any try; the exception leaves _handle_line and run.
ValueLine ==
    /\ HasLine
    /\ Line.kind = "value"
    /\ srv_next' = srv_next + 1
    /\ srv_pc' = "crashed"
    /\ UNCHANGED <<srv_input, srv_output, srv_state, srv_should_exit>>
    /\ UNCHANGED srvRest

\* lines 46-51
MissingMethod ==
    /\ HasLine
    /\ Line.kind = "object"
    /\ Line.method = ""
    /\ Respond(ErrorResponse(Line.id, -32600), srv_should_exit)
    /\ UNCHANGED <<srv_input, srv_state, srv_should_exit>>
    /\ UNCHANGED srvRest

\* line 61: dispatch.get on a list raises TypeError (unhashable) outside
\* any try.
UnhashableMethod ==
    /\ HasLine
    /\ Line.kind = "object"
    /\ Line.method = "[list]"
    /\ srv_next' = srv_next + 1
    /\ srv_pc' = "crashed"
    /\ UNCHANGED <<srv_input, srv_output, srv_state, srv_should_exit>>
    /\ UNCHANGED srvRest

\* lines 61-67
UnknownMethod ==
    /\ HasLine
    /\ Line.kind = "object"
    /\ Line.method \notin DispatchMethods \cup {"", "[list]"}
    /\ Respond(ErrorResponse(Line.id, -32601), srv_should_exit)
    /\ UNCHANGED <<srv_input, srv_state, srv_should_exit>>
    /\ UNCHANGED srvRest

\* lines 69-79 with handle_initialize
Initialize ==
    /\ HasLine
    /\ Line.kind = "object"
    /\ Line.method = "initialize"
    /\ IF InitializeRaises(Line)
       THEN Respond(ErrorResponse(Line.id, -32000), srv_should_exit)
       ELSE Respond(ResultResponse(Line.id, "file_count"), srv_should_exit)
    /\ srv_state' = StateAfterInitialize(Line, srv_state)
    /\ UNCHANGED <<srv_input, srv_should_exit>>
    /\ UNCHANGED srvRest

\* lines 69-79 with handle_get_context
GetContext ==
    /\ HasLine
    /\ Line.kind = "object"
    /\ Line.method = "getContext"
    /\ IF GetContextRaises(Line, srv_state)
       THEN Respond(ErrorResponse(Line.id, -32000), srv_should_exit)
       ELSE Respond(ResultResponse(Line.id, ContextOf(srv_state)), srv_should_exit)
    /\ UNCHANGED <<srv_input, srv_state, srv_should_exit>>
    /\ UNCHANGED srvRest

\* lines 69-79 with handle_shutdown (lines 104-107), then lines 28-29
Shutdown ==
    /\ HasLine
    /\ Line.kind = "object"
    /\ Line.method = "shutdown"
    /\ srv_state' = "none"
    /\ srv_should_exit' = TRUE
    /\ Respond(ResultResponse(Line.id, "null"), TRUE)
    /\ UNCHANGED srv_input
    /\ UNCHANGED srvRest

\* line 18: end of input
EndOfInput ==
    /\ srv_pc = "running"
    /\ srv_next > Len(srv_input)
    /\ srv_pc' = "stopped"
    /\ UNCHANGED <<srv_input, srv_next, srv_output, srv_state, srv_should_exit>>
    /\ UNCHANGED srvRest

NextServer ==
    \/ SkipBlank
    \/ ParseError
    \/ ValueLine
    \/ MissingMethod
    \/ UnhashableMethod
    \/ UnknownMethod
    \/ Initialize
    \/ GetContext
    \/ Shutdown
    \/ EndOfInput

SpecServer == InitServer /\ [][NextServer]_vars

\* ---------------------------------------------------------------------------
\* C18, C19: error responses and shutdown of the context server
\* ---------------------------------------------------------------------------

\* the non-blank lines among the first n lines of the input, in order
RECURSIVE NonBlank(_, _)
NonBlank(input, n) ==
    IF n = 0 THEN <<>>
    ELSE IF input[n].kind = "blank" THEN NonBlank(input, n - 1)
         ELSE Append(NonBlank(input, n - 1), input[n])

\* the lines read so far
LinesRead == srv_next - 1

\* the error code JSON-RPC 2.0 gives a line that is not a well-formed
\* request, 0 for a line that the dispatcher hands to a handler
ErrorCodeOf(line) ==
    IF line.kind = "malformed" THEN -32700
    ELSE IF line.kind = "value" \/ line.method \in {"", "[list]"} THEN -32600
    ELSE IF line.method \notin DispatchMethods THEN -32601
    ELSE 0

\* C18: each non-blank line read so far has exactly one response, in order;
\* the response to a line that is not a well-formed request is an error with
\* the JSON-RPC code of its defect (id null for unparseable JSON), the
\* response to a request whose handler raised is the error -32000; and the
\* server goes on serving after such a line: it never stops before the end
\* of the input unless it was told to shut down.
C18_ErrorResponses ==
    srv_pc # "idle" =>
        LET lines == NonBlank(srv_input, LinesRead)
        IN  /\ Len(srv_output) = Len(lines)
            /\ \A k \in 1..Len(lines) :
                   /\ ErrorCodeOf(lines[k]) # 0 =>
                          /\ srv_output[k].error
                          /\ srv_output[k].code = ErrorCodeOf(lines[k])
                          /\ srv_output[k].id = lines[k].id
                   /\ (lines[k].method = "getContext" /\ ~lines[k].params_ok) =>
                          srv_output[k] = ErrorResponse(lines[k].id, -32000)
            /\ srv_pc # "running" =>
                   \/ LinesRead = Len(srv_input)
                   \/ srv_should_exit

\* the first shutdown request among the lines of the input, 0 if none
FirstShutdown ==
    LET S == {k \in 1..Len(srv_input) :
                 srv_input[k].kind = "object" /\ srv_input[k].method = "shutdown"}
    IN  IF S = {} THEN 0 ELSE Least(S)

\* the lines among the first n of the input that json.loads turns into an
\* object, together with the unparseable ones: the lines that get a response
RequestLines(input, n) ==
    SelectSeq(NonBlank(input, n), LAMBDA line : line.kind # "value")

\* C19: no line after a shutdown request is read; once the shutdown request
\* has been read its response (result null) is the last one written, the
\* project state is cleared and the server has stopped; and when the server
\* is no longer running it has answered, in arrival order and one response
\* each, the request lines up to the shutdown request (all request lines of
\* the input if there is none).
C19_ShutdownStops ==
    srv_pc # "idle" =>
        LET served == IF FirstShutdown = 0 THEN Len(srv_input) ELSE FirstShutdown
            lines == RequestLines(srv_input, served)
        IN  /\ LinesRead <= served
            /\ (FirstShutdown # 0 /\ LinesRead = FirstShutdown) =>
                   /\ srv_pc = "stopped"
                   /\ srv_state = "none"
                   /\ srv_output[Len(srv_output)] =
                          ResultResponse(srv_input[FirstShutdown].id, "null")
            /\ srv_pc # "running" =>
                   /\ Len(srv_output) = Len(lines)
                   /\ \A k \in 1..Len(lines) : srv_output[k].id = lines[k].id

\* ---------------------------------------------------------------------------
\* C20: prefixes of the examples of generate_fim_examples (SpecAssemble)
\* ---------------------------------------------------------------------------

\* C20: every example emitted by generate_fim_examples has a non-empty
\* prefix, whatever the kind of its span.
C20_NonEmptyPrefix ==
    \A ex \in Emitted : Len(ex.prefix) > 0

\* ---------------------------------------------------------------------------
\* C21: the budget loop of retrieve_bm25_context (SpecBM25)
\* ---------------------------------------------------------------------------

\* the summed length of the chunks of the pairs, each with its header line
RECURSIVE ChunksLen(_, _)
ChunksLen(pairs, files) ==
    IF pairs = <<>> THEN 0
    ELSE Len(ChunkWithHeader(files, pairs[1][1])) + ChunksLen(Tail(pairs), files)

\* the pairs selected by line 94-110 for the call
BmSelection == Selected(bm_chunk_files, bm_scores, bm_filepath, bm_top_k)

\* C21: the included chunks are a leading run of the selected chunks, in
\* score order; their summed length (header lines included) is at most
\* max_tokens * 4; the run ends at the first selected chunk that would
\* exceed the budget, and no chunk after that one is included.
C21_LeadingRun ==
    (bm_pc = "returned" /\ _tokenize_code(bm_query) # <<>>) =>
        LET n == Len(bm_selected)
        IN  /\ n <= Len(BmSelection)
            /\ bm_selected = SubSeq(BmSelection, 1, n)
            /\ ChunksLen(bm_selected, bm_chunk_files) <= bm_max_tokens * 4
            /\ n < Len(BmSelection) =>
                   ChunksLen(SubSeq(BmSelection, 1, n + 1), bm_chunk_files)
                       > bm_max_tokens * 4
            /\ bm_result = JoinParts(bm_selected, bm_chunk_files)

\* One chunk was included, the second selected chunk did not fit and ended
\* the loop, and the third selected chunk, which would have fitted, is not
\* in the result.
C21_Witness ==
    /\ bm_pc = "returned"
    /\ Len(bm_selected) = 1
    /\ Len(BmSelection) = 3
    /\ ChunksLen(SubSeq(BmSelection, 1, 2), bm_chunk_files) > bm_max_tokens * 4
    /\ ChunksLen(<<BmSelection[1], BmSelection[3]>>, bm_chunk_files) <= bm_max_tokens * 4
    /\ bm_result = ChunkWithHeader(bm_chunk_files, BmSelection[1][1]) \o <<"\n", "\n">>

\* ---------------------------------------------------------------------------
\* C22: truncation of byte- and char-locator examples (SpecAssemble)
\* ---------------------------------------------------------------------------

\* line 103-104 for a byte- or char-locator span: prefix, middle and suffix
\* are the whole source, so the first total is len(source) + len(xf_context)
OverBudget == Len(source) + Len(xf_context) > max_total_chars

\* the example is cut out of the source around the slice [a, b) as the
\* claim says: the middle is the slice, the prefix the last
\* max_total_chars // 3 characters before it and the suffix the first
\* max_total_chars // 3 characters after it when the file is over budget,
\* all of both otherwise
CutAround(ex, a, b) ==
    LET max_ctx == max_total_chars \div 3
    IN  /\ ex.middle = Slice(source, a, b)
        /\ ex.prefix = IF OverBudget /\ a > max_ctx
                         THEN Slice(source, a - max_ctx, a)
                         ELSE SliceTo(source, a)
        /\ ex.suffix = IF OverBudget /\ Len(source) - b > max_ctx
                         THEN Slice(source, b, b + max_ctx)
                         ELSE SliceFrom(source, b)

\* the offsets the assembler slices the source with (line 95, line 262-265)
SliceOffsets(span) ==
    IF span.kind = "char_random" THEN <<span.start_line, span.end_line>>
    ELSE <<span.start_byte, span.end_byte>>

\* the byte- and char-locator spans the generators can yield for the file
ByteOrCharSpans ==
    UNION {FileSpans[source][AstSlots[k]] : k \in 1..Len(AstSlots)}

\* what the claim lets the assembler do with a span: nothing when the middle
\* is rejected or the truncated total does not fit, one example otherwise
TruncatedTotal(span) ==
    LET o == SliceOffsets(span)
        max_ctx == max_total_chars \div 3
        a == Min(o[1], Len(source))
        b == Min(o[2], Len(source))
    IN  IF OverBudget
          THEN Min(a, max_ctx) + (b - a) + Min(Len(source) - b, max_ctx) + Len(xf_context)
          ELSE Len(source) + Len(xf_context)

\* C22: every emitted byte- or char-locator example is cut around a slice
\* [a, b) of the source: the middle is the slice unaltered, prefix and suffix
\* are whole when the file fits the budget and cut to the last and the first
\* max_total_chars // 3 characters when it does not, and the total with
\* the cross-file context fits the budget; prefix + middle + suffix is a
\* contiguous part of the source.  A span of the file (looked at when the
\* loop starts) is rejected exactly when its middle is rejected or its
\* truncated total does not fit.
C22_Truncation ==
    /\ \A ex \in Emitted :
          ex.span_kind \in ByteOrCharKinds =>
              /\ ex.middle # <<>>
              /\ \E a \in 0..(Len(source) - Len(ex.middle)) :
                    CutAround(ex, a, a + Len(ex.middle))
              /\ ExampleTotal(ex) <= max_total_chars
              /\ Contains(source, Whole(ex))
    /\ (asm_pc = "loop" /\ asm_nspans = 0) =>
          \A span \in ByteOrCharSpans :
              LET o == SliceOffsets(span)
                  made == ConvertSpan(source, FileLines[source], span, xf_context,
                                      bm25_file_ctx, max_total_chars)
              IN  /\ made = <<>> <=>
                        \/ MiddleRejected(Slice(source, o[1], o[2]), MinWordsOf(span.kind))
                        \/ TruncatedTotal(span) > max_total_chars
                  /\ made # <<>> => CutAround(made[1], o[1], o[2])

\* The file is over budget and an example was emitted whose prefix and
\* suffix were both cut to max_total_chars // 3 characters, while another
\* span of the file is rejected because its truncated total does not fit.
C22_Witness ==
    /\ OverBudget
    /\ \E ex \in Emitted :
          /\ ex.span_kind \in ByteOrCharKinds
          /\ Len(ex.prefix) = max_total_chars \div 3
          /\ Len(ex.suffix) = max_total_chars \div 3
          /\ Whole(ex) # source
    /\ \E span \in ByteOrCharSpans :
          /\ ~MiddleRejected(Slice(source, SliceOffsets(span)[1], SliceOffsets(span)[2]),
                             MinWordsOf(span.kind))
          /\ TruncatedTotal(span) > max_total_chars

\* ---------------------------------------------------------------------------
\* Single-node masking on files of any size: extract_spans_ast, lines
\* 133-167 of src/python/generate/_spans_ast.py.  SpecAst runs the whole
\* function on three parsed files of about a hundred bytes, where
\* single_count is 1; here the file is given by the two things the step
\* reads, len(source_bytes) and the list of eligible nodes, so that files of
\* 2000 bytes and more are covered.  The aligned loop that follows (lines
\* 170-197) only appends to spans.
\* ---------------------------------------------------------------------------

\* len(source_bytes): below and at the sizes where single_count grows
SingleFileLens == {120, 1999, 2000, 2999, 3000}

\* eligible nodes of a file: byte range and the rows of its ends
SingleNodePool ==
    {[start_byte |-> 0,   end_byte |-> 21,  start_row |-> 0, end_row |-> 0],
     [start_byte |-> 22,  end_byte |-> 47,  start_row |-> 1, end_row |-> 2],
     [start_byte |-> 35,  end_byte |-> 47,  start_row |-> 2, end_row |-> 2],
     [start_byte |-> 48,  end_byte |-> 118, start_row |-> 3, end_row |-> 9]}

\* Most eligible nodes in a file
MaxEligible == 3

\* the lists _collect_eligible_nodes can return: distinct nodes in preorder
SingleEligibleLists ==
    UNION {{l \in [1..n -> SingleNodePool] :
               \A i \in 1..n : \A j \in (i + 1)..n :
                   /\ l[i].start_byte <= l[j].start_byte
                   /\ l[i] # l[j]} : n \in 0..MaxEligible}

\* lines 134-138: single_count for a file of n bytes
SingleCountOf(n) == Max(2, n \div 500) \div 2

\* lines 160-167
SingleSpanOf(node) ==
    CodeSpan("ast_single_node", node.start_row, node.end_row,
             node.start_byte, node.end_byte, NoFilters)

InitSingle ==
    /\ sn_len \in SingleFileLens
    /\ sn_eligible \in SingleEligibleLists
    /\ sn_spans = <<>>
    /\ sn_pc = "called"
    /\ SnRestIdle

\* line 145: no eligible node, no single-node span
NoEligibleNode ==
    /\ sn_pc = "called"
    /\ sn_eligible = <<>>
    /\ sn_pc' = "masked"
    /\ UNCHANGED <<sn_len, sn_eligible, sn_spans>>
    /\ UNCHANGED snRest

\* lines 145-167: random.choices(eligible, weights, k) draws k times from
\* the whole list; every weight is positive (line 147), so every list of k
\* nodes can come out
ChooseSingleNodes ==
    /\ sn_pc = "called"
    /\ sn_eligible # <<>>
    /\ LET k == Min(SingleCountOf(sn_len), Len(sn_eligible))
       IN  \E chosen \in [1..k -> 1..Len(sn_eligible)] :
               sn_spans' = [i \in 1..k |-> SingleSpanOf(sn_eligible[chosen[i]])]
    /\ sn_pc' = "masked"
    /\ UNCHANGED <<sn_len, sn_eligible>>
    /\ UNCHANGED snRest

NextSingle == NoEligibleNode \/ ChooseSingleNodes

SpecSingle == InitSingle /\ [][NextSingle]_vars

\* ---------------------------------------------------------------------------
\* C23: single-node masking samples without replacement
\* ---------------------------------------------------------------------------

\* C23: after single-node masking no two ast_single_node spans have the same
\* start_byte and end_byte, and there are at most min(T // 2, number of
\* eligible nodes) of them, T = max(2, len(source_bytes) // 500).
C23_NoRepeatedNode ==
    sn_pc = "masked" =>
        /\ \A i \in 1..Len(sn_spans) : \A j \in (i + 1)..Len(sn_spans) :
               ~(/\ sn_spans[i].start_byte = sn_spans[j].start_byte
                 /\ sn_spans[i].end_byte = sn_spans[j].end_byte)
        /\ Len(sn_spans) <= Min(Max(2, sn_len \div 500) \div 2, Len(sn_eligible))

\* ---------------------------------------------------------------------------
\* C24: trailing comments of the selected child range (SpecAst)
\* ---------------------------------------------------------------------------

\* the last iteration of the aligned loop drew a window for which the loops
\* of lines 86-101 selected a child range
RangeSelected ==
    /\ ast_pc \in {"aligned", "done"}
    /\ ast_window # <<>>
    /\ BestIJ(AstTrees[ast_tree].nodes, 1, ast_window[1], ast_window[2],
              ast_function_types) # {}

\* children and best_ij of that iteration
WindowChildren ==
    AlignedChildren(AstTrees[ast_tree].nodes, 1, ast_window[1], ast_window[2])

WindowBestIJ ==
    CHOOSE c \in BestIJ(AstTrees[ast_tree].nodes, 1, ast_window[1], ast_window[2],
                        ast_function_types) : TRUE

ChildType(m) == AstTrees[ast_tree].nodes[WindowChildren[m]].type

ChildStart(m) == AstTrees[ast_tree].nodes[WindowChildren[m]].start_byte

ChildEnd(m) == AstTrees[ast_tree].nodes[WindowChildren[m]].end_byte

\* the last child of the range i..j that is not a comment, or i when every
\* child of the range is a comment
LastKept(i, j) ==
    LET keep == {m \in i..j : ChildType(m) # "comment"} \cup {i}
    IN  CHOOSE m \in keep : \A k \in keep : k <= m

\* C24 as stated: for every selected range (i, j) the returned range starts
\* at child i and ends at a child of i..j whose type is not comment.
C24_Original ==
    RangeSelected =>
        /\ ast_result # <<>>
        /\ ast_result[1] = ChildStart(WindowBestIJ[1])
        /\ \E m \in WindowBestIJ[1]..WindowBestIJ[2] :
              /\ ast_result[2] = ChildEnd(m)
              /\ ChildType(m) # "comment"

\* C24 amended: for every selected range (i, j) the returned range starts at
\* child i and ends at the last child of i..j that is not a comment; when
\* every child of i..j is a comment it ends at child i, a comment.  The
\* children dropped are comments, and the range never extends past j nor
\* before i.
C24_TrailingCommentsTrimmed ==
    RangeSelected =>
        LET i == WindowBestIJ[1]
            j == WindowBestIJ[2]
            m == LastKept(i, j)
        IN  /\ ast_result = <<ChildStart(i), ChildEnd(m)>>
            /\ i <= m /\ m <= j
            /\ \A k \in (m + 1)..j : ChildType(k) = "comment"
            /\ ChildType(m) = "comment" =>
                   m = i /\ \A k \in i..j : ChildType(k) = "comment"

\* The selected range ended with a comment that was dropped: the returned
\* range ends at an earlier child that is not a comment.
C24_Witness ==
    /\ RangeSelected
    /\ ChildType(WindowBestIJ[2]) = "comment"
    /\ LastKept(WindowBestIJ[1], WindowBestIJ[2]) < WindowBestIJ[2]
    /\ ast_result[2] = ChildEnd(LastKept(WindowBestIJ[1], WindowBestIJ[2]))
    /\ ast_result[2] < ChildEnd(WindowBestIJ[2])

\* ---------------------------------------------------------------------------
\* Character-level splits: src/python/generate/_spans_charlevel.py,
\* generate_char_level_splits.  The function reads two things of the source,
\* len(source) and source.count("\n"); a source is given by those.
\* ---------------------------------------------------------------------------

\* <<len(source), source.count("\n")>>: empty, shorter than three middles,
\* exactly three middles and longer, for the parameter pairs below
CharSources ==
    {<<0, 0>>, <<2, 0>>, <<3, 1>>, <<5, 1>>, <<6, 0>>,
     <<29, 3>>, <<30, 3>>, <<31, 0>>, <<36, 5>>}

\* <<min_middle_chars, max_middle_chars>>: the defaults, and narrower ones
CharMiddleBounds == {<<10, 500>>, <<10, 11>>, <<2, 3>>, <<1, 1>>}

\* num_splits: 0 (the default, line 27-28) or given
CharNumSplits == {0, 1, 2}

\* line 27-28
EffectiveSplits(num_splits, newlines) ==
    IF num_splits <= 0 THEN Max(1, newlines \div 100) ELSE num_splits

\* line 33: the values random.randint can return for mid_len
MidLens(len, min_chars, max_chars) == min_chars..Min(max_chars, len \div 3)

\* A plausible slip: no character is left for the suffix.
max_start_NoSuffix(len, mid_len) == len - mid_len

\* line 35
max_start(len, mid_len) == len - mid_len - 1

\* line 41-47
CharSpan(start, mid_len) ==
    CodeSpan("char_random", start, start + mid_len, -1, -1, NoFilters)

InitChar ==
    /\ \E s \in CharSources : ch_len = s[1] /\ ch_newlines = s[2]
    /\ \E b \in CharMiddleBounds : ch_min = b[1] /\ ch_max = b[2]
    /\ ch_num_splits \in CharNumSplits
    /\ ch_spans = <<>>
    /\ ch_left = 0
    /\ ch_pc = "called"
    /\ ChRestIdle

ChFrame == UNCHANGED <<ch_len, ch_newlines, ch_min, ch_max, ch_num_splits>>

\* line 23-24
SourceTooShort ==
    /\ ch_pc = "called"
    /\ ch_len < ch_min * 3
    /\ ch_pc' = "returned"
    /\ UNCHANGED <<ch_spans, ch_left>>
    /\ ChFrame
    /\ UNCHANGED chRest

\* line 26-31
EnterSplitLoop ==
    /\ ch_pc = "called"
    /\ ch_len >= ch_min * 3
    /\ ch_left' = EffectiveSplits(ch_num_splits, ch_newlines)
    /\ ch_pc' = "loop"
    /\ UNCHANGED ch_spans
    /\ ChFrame
    /\ UNCHANGED chRest

\* one iteration of the loop of line 31-47
SplitIteration ==
    /\ ch_pc = "loop"
    /\ ch_left > 0
    /\ ch_left' = ch_left - 1
    /\ \E mid_len \in MidLens(ch_len, ch_min, ch_max) :
          IF max_start(ch_len, mid_len) < 1
            THEN UNCHANGED ch_spans
          ELSE \E start \in 1..max_start(ch_len, mid_len) :
                  ch_spans' = Append(ch_spans, CharSpan(start, mid_len))
    /\ UNCHANGED ch_pc
    /\ ChFrame
    /\ UNCHANGED chRest

\* line 49
ReturnSplits ==
    /\ ch_pc = "loop"
    /\ ch_left = 0
    /\ ch_pc' = "returned"
    /\ UNCHANGED <<ch_spans, ch_left>>
    /\ ChFrame
    /\ UNCHANGED chRest

NextChar == SourceTooShort \/ EnterSplitLoop \/ SplitIteration \/ ReturnSplits

SpecChar == InitChar /\ [][NextChar]_vars

\* ---------------------------------------------------------------------------
\* C25: offsets and number of the char_random spans
\* ---------------------------------------------------------------------------

\* C25: every span of generate_char_level_splits is a char_random span with
\* 1 <= start < end <= len(source) - 1 and with end - start between
\* min_middle_chars and min(max_middle_chars, len(source) // 3); a source
\* shorter than 3 * min_middle_chars yields no span, and a longer one yields
\* exactly num_splits spans when num_splits is given.
C25_CharSpans ==
    /\ \A k \in 1..Len(ch_spans) :
          /\ ch_spans[k].kind = "char_random"
          /\ 1 <= ch_spans[k].start_line
          /\ ch_spans[k].start_line < ch_spans[k].end_line
          /\ ch_spans[k].end_line <= ch_len - 1
          /\ ch_spans[k].end_line - ch_spans[k].start_line >= ch_min
          /\ ch_spans[k].end_line - ch_spans[k].start_line <= Min(ch_max, ch_len \div 3)
    /\ ch_pc = "returned" =>
          /\ ch_len < 3 * ch_min => ch_spans = <<>>
          /\ (ch_len >= 3 * ch_min /\ ch_num_splits > 0) =>
                 Len(ch_spans) = ch_num_splits

\* Two splits were asked for and returned: one starts at offset 1, the
\* other is of the greatest length and ends at len(source) - 1.
C25_Witness ==
    /\ ch_pc = "returned"
    /\ ch_num_splits = 2
    /\ Len(ch_spans) = 2
    /\ ch_spans[1].start_line = 1
    /\ ch_spans[2].end_line = ch_len - 1
    /\ ch_spans[2].end_line - ch_spans[2].start_line = Min(ch_max, ch_len \div 3)

\* ---------------------------------------------------------------------------
\* One run of the generator: src/python/generate/_cli.py, main, with
\* generate_all_examples, apply_postprocessing and write_output.
\* ---------------------------------------------------------------------------

\* A FIMExample (src/python/fim/types.py:64-77) as main handles it; index
\* tells the objects of one file apart and low_quality is the verdict
\* filter_low_quality_examples gives it.
MainExample(file, index, span_kind, prefix, middle, suffix, xf, score, low) ==
    [filepath |-> file, index |-> index, span_kind |-> span_kind,
     prefix |-> prefix, middle |-> middle, suffix |-> suffix,
     cross_file_context |-> xf, complexity_score |-> score,
     low_quality |-> low]

\* What _make_example_from_byte_span or _make_example_from_line_span
\* returns for one span of a file
MainMade(span_kind, prefix, middle, suffix, low) ==
    [span_kind |-> span_kind, prefix |-> prefix, middle |-> middle,
     suffix |-> suffix, low_quality |-> low]

\* A source file as the loop of generate_all_examples sees it: skipped
\* (unreadable or under 10 lines), raising, or with a complexity score, a
\* dependency context, a BM25 context and the examples made of its spans.
MainFile(skipped, raises, score, dep_ctx, bm25_ctx, made) ==
    [skipped |-> skipped, raises |-> raises, score |-> score,
     xf_context |-> dep_ctx, bm25_file_ctx |-> bm25_ctx,
     made |-> made]

MainFileSkipped == MainFile(TRUE, FALSE, 0, <<>>, <<>>, <<>>)

MainFileRaising == MainFile(FALSE, TRUE, 0, <<>>, <<>>, <<>>)

\* two AST examples, a dependency context of 1 and a BM25 context of 2
\* characters; the second example is low-quality and has a longer prefix
MainFileAst ==
    MainFile(FALSE, FALSE, 3, <<"d">>, <<"b", "m">>,
             <<MainMade("ast_aligned_span", <<"p">>, <<"m", "m">>, <<"s">>, FALSE),
               MainMade("ast_single_node", <<"p", "p", "p">>, <<"m", "m">>, <<"s">>, TRUE)>>)

\* a char and a dev example, no context
MainFileMixed ==
    MainFile(FALSE, FALSE, 5, <<>>, <<>>,
             <<MainMade("char_random", <<"p">>, <<"m">>, <<"s">>, FALSE),
               MainMade("dev_bracket_content", <<"p">>, <<"m">>, <<"s", "s">>, FALSE)>>)

MainFiles == {MainFileSkipped, MainFileRaising, MainFileAst, MainFileMixed}

\* Longest list of source files of a run
MaxMainFiles == 2

\* args: --quality-filter, --curriculum, --curriculum-top-pct, --preview,
\* --max-total-chars
MainArgs ==
    [quality_filter : BOOLEAN, curriculum : BOOLEAN,
     curriculum_top_pct : {50, 100}, preview : {0, 2},
     max_total_chars : {8}]

\* --val-split, default 0.1, in tenths (line 66)
val_split == 1

\* _fim.py line 115-126, 165-176: the FIMExample as the assembler creates
\* it, with the dependency context and the default complexity_score
MainCreated(i, k, f) ==
    MainExample(i, k, f.made[k].span_kind, f.made[k].prefix, f.made[k].middle,
                f.made[k].suffix, f.xf_context, 0, f.made[k].low_quality)

\* A plausible slip: the BM25 context is added whatever the budget.
AddBM25Context_NoBudget(ex, bm25_ctx, max_chars) ==
    IF bm25_ctx # <<>>
      THEN [ex EXCEPT !.cross_file_context = bm25_ctx \o ex.cross_file_context]
      ELSE ex

\* _fim.py line 276-282
AddBM25Context(ex, bm25_ctx, max_chars) ==
    IF bm25_ctx # <<>>
       /\ Len(ex.prefix) + Len(ex.middle) + Len(ex.suffix)
            + Len(bm25_ctx \o ex.cross_file_context) <= max_chars
      THEN [ex EXCEPT !.cross_file_context = bm25_ctx \o ex.cross_file_context]
      ELSE ex

\* _cli.py line 161-162
AssignComplexity(ex, score) == [ex EXCEPT !.complexity_score = score]

\* line 147-162: the examples of file number i as generate_all_examples
\* appends them
MainFileExamples(i, f, args) ==
    [k \in 1..Len(f.made) |->
        AssignComplexity(
            AddBM25Context(MainCreated(i, k, f), f.bm25_file_ctx,
                           args.max_total_chars),
            f.score)]

\* A plausible slip: the rebalancer is called before the quality filter.
StepAfter_RebalanceFirst(step, args) ==
    CASE step = "generate" -> "rebalance"
      [] step = "rebalance" ->
            IF args.quality_filter THEN "filter"
            ELSE IF args.curriculum THEN "sort" ELSE "stats"
      [] step = "filter" -> IF args.curriculum THEN "sort" ELSE "stats"
      [] step = "sort" -> IF args.curriculum_top_pct < 100 THEN "cut" ELSE "stats"
      [] step = "cut" -> "stats"
      [] step = "stats" -> IF args.preview > 0 THEN "preview" ELSE "write_train"
      [] step = "preview" -> "done"
      [] step = "write_train" -> "write_val"
      [] step = "write_val" -> "write_metadata"
      [] step = "write_metadata" -> "done"

\* The statement main reaches after a step: line 299-310, with the body of
\* apply_postprocessing (line 173-185) and of write_output (line 227-266)
StepAfter(step, args) ==
    CASE step = "generate" ->
            IF args.quality_filter THEN "filter" ELSE "rebalance"
      [] step = "filter" -> "rebalance"
      [] step = "rebalance" -> IF args.curriculum THEN "sort" ELSE "stats"
      [] step = "sort" -> IF args.curriculum_top_pct < 100 THEN "cut" ELSE "stats"
      [] step = "cut" -> "stats"
      [] step = "stats" -> IF args.preview > 0 THEN "preview" ELSE "write_train"
      [] step = "preview" -> "done"
      [] step = "write_train" -> "write_val"
      [] step = "write_val" -> "write_metadata"
      [] step = "write_metadata" -> "done"

\* line 180: list.sort(key=complexity_score, reverse=True) is stable
RECURSIVE SortByComplexity(_)
SortByComplexity(exs) ==
    IF exs = <<>> THEN <<>>
    ELSE LET top == CHOOSE s \in {exs[i].complexity_score : i \in 1..Len(exs)} :
                        \A i \in 1..Len(exs) : exs[i].complexity_score <= s
         IN  SelectSeq(exs, LAMBDA e : e.complexity_score = top)
             \o SortByComplexity(SelectSeq(exs, LAMBDA e : e.complexity_score # top))

\* line 182-183
TopPercent(exs, pct) ==
    SubSeq(exs, 1, Min(Len(exs), Max(1, (Len(exs) * pct) \div 100)))

\* line 213: the orders random.shuffle can leave
Shuffled(exs) ==
    {[i \in 1..Len(exs) |-> exs[p[i]]] :
        p \in {q \in [1..Len(exs) -> 1..Len(exs)] :
                  \A i, j \in 1..Len(exs) : i # j => q[i] # q[j]}}

\* line 214
val_size(exs) == (Len(exs) * val_split) \div 10

InitMain ==
    /\ run_args \in MainArgs
    /\ run_files \in UNION {[1..n -> MainFiles] : n \in 0..MaxMainFiles}
    /\ run_next = 0
    /\ run_examples = <<>>
    /\ run_rejected = <<>>
    /\ run_created = <<>>
    /\ run_steps = <<>>
    /\ run_written = <<>>
    /\ run_pc = "discover"
    /\ MainRestIdle

MainInputs == UNCHANGED <<run_args, run_files>>

\* line 96-98: no source file, sys.exit(1)
MainNoFiles ==
    /\ run_pc = "discover"
    /\ run_files = <<>>
    /\ run_pc' = "exited"
    /\ UNCHANGED <<run_next, run_examples, run_created, run_rejected, run_steps, run_written>>
    /\ MainInputs
    /\ UNCHANGED mainRest

\* line 297-299
MainDiscover ==
    /\ run_pc = "discover"
    /\ run_files # <<>>
    /\ run_pc' = "generate"
    /\ UNCHANGED <<run_next, run_examples, run_created, run_rejected, run_steps, run_written>>
    /\ MainInputs
    /\ UNCHANGED mainRest

\* line 131-164: one iteration of the loop of generate_all_examples
MainFileStep ==
    /\ run_pc = "generate"
    /\ run_next < Len(run_files)
    /\ LET f == run_files[run_next + 1]
       IN  IF f.raises
             THEN /\ run_pc' = "raised"
                  /\ UNCHANGED <<run_next, run_examples, run_created>>
             ELSE /\ run_next' = run_next + 1
                  /\ run_examples' =
                        IF f.skipped THEN run_examples
                        ELSE run_examples
                             \o MainFileExamples(run_next + 1, f, run_args)
                  /\ run_created' =
                        IF f.skipped THEN run_created
                        ELSE run_created
                             \o [k \in 1..Len(f.made) |-> MainCreated(run_next + 1, k, f)]
                  /\ UNCHANGED run_pc
    /\ UNCHANGED <<run_rejected, run_steps, run_written>>
    /\ MainInputs
    /\ UNCHANGED mainRest

\* line 166, 302: the loop is over and apply_postprocessing is entered
MainGenerated ==
    /\ run_pc = "generate"
    /\ run_next = Len(run_files)
    /\ run_pc' = StepAfter("generate", run_args)
    /\ UNCHANGED <<run_next, run_examples, run_created, run_rejected, run_steps, run_written>>
    /\ MainInputs
    /\ UNCHANGED mainRest

\* line 173-174: rejected is the list of the rejected examples
MainQualityFilter ==
    /\ run_pc = "filter"
    /\ run_examples' = SelectSeq(run_examples, LAMBDA e : ~e.low_quality)
    /\ run_rejected' = SelectSeq(run_examples, LAMBDA e : e.low_quality)
    /\ run_steps' = Append(run_steps, "filter")
    /\ run_pc' = StepAfter("filter", run_args)
    /\ UNCHANGED <<run_next, run_created, run_written>>
    /\ MainInputs
    /\ UNCHANGED mainRest

\* line 177
MainRebalance ==
    /\ run_pc = "rebalance"
    /\ IF run_examples = <<>>
         THEN UNCHANGED run_examples
         ELSE \E a \in Downsampled(run_examples, "ast") :
              \E d \in Downsampled(run_examples, "dev") :
              \E c \in Downsampled(run_examples, "char") :
                  run_examples' = a \o d \o c
    /\ run_steps' = Append(run_steps, "rebalance")
    /\ run_pc' = StepAfter("rebalance", run_args)
    /\ UNCHANGED <<run_next, run_created, run_rejected, run_written>>
    /\ MainInputs
    /\ UNCHANGED mainRest

\* line 179-180
MainCurriculumSort ==
    /\ run_pc = "sort"
    /\ run_examples' = SortByComplexity(run_examples)
    /\ run_steps' = Append(run_steps, "sort")
    /\ run_pc' = StepAfter("sort", run_args)
    /\ UNCHANGED <<run_next, run_created, run_rejected, run_written>>
    /\ MainInputs
    /\ UNCHANGED mainRest

\* line 181-183
MainTopPercent ==
    /\ run_pc = "cut"
    /\ run_examples' = TopPercent(run_examples, run_args.curriculum_top_pct)
    /\ run_steps' = Append(run_steps, "cut")
    /\ run_pc' = StepAfter("cut", run_args)
    /\ UNCHANGED <<run_next, run_created, run_rejected, run_written>>
    /\ MainInputs
    /\ UNCHANGED mainRest

\* line 185, 304: apply_postprocessing returns, the statistics are printed
MainStats ==
    /\ run_pc = "stats"
    /\ run_pc' = StepAfter("stats", run_args)
    /\ UNCHANGED <<run_next, run_examples, run_created, run_rejected, run_steps, run_written>>
    /\ MainInputs
    /\ UNCHANGED mainRest

\* line 306-308: the preview is printed and main returns
MainPreview ==
    /\ run_pc = "preview"
    /\ run_pc' = StepAfter("preview", run_args)
    /\ UNCHANGED <<run_next, run_examples, run_created, run_rejected, run_steps, run_written>>
    /\ MainInputs
    /\ UNCHANGED mainRest

\* line 212-232, first file: shuffle, split, train.jsonl
MainWriteTrain ==
    /\ run_pc = "write_train"
    /\ \E order \in (IF run_args.curriculum THEN {run_examples}
                     ELSE Shuffled(run_examples)) :
          /\ run_examples' = order
          /\ run_written' = Append(run_written,
                [path |-> "train.jsonl", complete |-> TRUE,
                 examples |-> SubSeq(order, val_size(order) + 1, Len(order))])
    /\ run_pc' = StepAfter("write_train", run_args)
    /\ UNCHANGED <<run_next, run_created, run_rejected, run_steps>>
    /\ MainInputs
    /\ UNCHANGED mainRest

\* line 227-232, second file: val.jsonl
MainWriteVal ==
    /\ run_pc = "write_val"
    /\ run_written' = Append(run_written,
          [path |-> "val.jsonl", complete |-> TRUE,
           examples |-> SubSeq(run_examples, 1, val_size(run_examples))])
    /\ run_pc' = StepAfter("write_val", run_args)
    /\ UNCHANGED <<run_next, run_examples, run_created, run_rejected, run_steps>>
    /\ MainInputs
    /\ UNCHANGED mainRest

\* line 235-267: metadata.json.  The value of quality_filter_rejected is
\* the list rejected; json.dump raises TypeError at its first FIMExample,
\* after the file has been opened and its first keys written.
MainWriteMetadata ==
    /\ run_pc = "write_metadata"
    /\ run_written' = Append(run_written,
          [path |-> "metadata.json", complete |-> run_rejected = <<>>,
           examples |-> run_examples])
    /\ run_pc' = IF run_rejected = <<>>
                   THEN StepAfter("write_metadata", run_args)
                   ELSE "raised"
    /\ UNCHANGED <<run_next, run_examples, run_created, run_rejected, run_steps>>
    /\ MainInputs
    /\ UNCHANGED mainRest

NextMain ==
    \/ MainNoFiles \/ MainDiscover \/ MainFileStep \/ MainGenerated
    \/ MainQualityFilter \/ MainRebalance \/ MainCurriculumSort
    \/ MainTopPercent \/ MainStats \/ MainPreview
    \/ MainWriteTrain \/ MainWriteVal \/ MainWriteMetadata

SpecMain == InitMain /\ [][NextMain]_vars

\* ---------------------------------------------------------------------------
\* C26: order of the post-processing steps and of the writes
\* ---------------------------------------------------------------------------

\* position of a completed step in run_steps, 0 when it has not completed
StepPos(step) ==
    IF \E k \in 1..Len(run_steps) : run_steps[k] = step
      THEN CHOOSE k \in 1..Len(run_steps) : run_steps[k] = step
      ELSE 0

StepDone(step) == StepPos(step) > 0

\* the post-processing steps the arguments ask for
StepsAsked ==
    (IF run_args.quality_filter THEN {"filter"} ELSE {})
    \cup {"rebalance"}
    \cup (IF run_args.curriculum THEN {"sort"} ELSE {})
    \cup (IF run_args.curriculum /\ run_args.curriculum_top_pct < 100
            THEN {"cut"} ELSE {})

\* C26: in every run the quality filter, when enabled, has completed before
\* the rebalancer runs; the rebalancer runs whatever the arguments and has
\* completed before the curriculum sort and the top-percent cut; and no
\* file is written before every source file has been processed and all
\* the steps asked for have completed.
C26_FixedOrder ==
    /\ \A k, l \in 1..Len(run_steps) : k # l => run_steps[k] # run_steps[l]
    /\ \A k \in 1..Len(run_steps) : run_steps[k] \in StepsAsked
    /\ (run_pc = "rebalance" \/ StepDone("rebalance")) =>
          (run_args.quality_filter =>
              /\ StepDone("filter")
              /\ StepDone("rebalance") => StepPos("filter") < StepPos("rebalance"))
    /\ (run_pc \in {"sort", "cut"} \/ StepDone("sort") \/ StepDone("cut")) =>
          /\ StepDone("rebalance")
          /\ StepDone("sort") => StepPos("rebalance") < StepPos("sort")
          /\ StepDone("cut") => StepPos("sort") > 0 /\ StepPos("sort") < StepPos("cut")
    /\ run_pc \in {"stats", "preview", "write_train", "write_val",
                   "write_metadata", "done"} => StepDone("rebalance")
    /\ (run_written # <<>> \/ run_pc \in {"write_train", "write_val", "write_metadata"}) =>
          /\ run_next = Len(run_files)
          /\ \A step \in StepsAsked : StepDone(step)

\* A run with every step enabled has processed two files, dropped
\* examples in the rebalancer and in the cut, and written the three files
\* in order.
C26_Witness ==
    /\ run_pc = "done"
    /\ run_next = 2
    /\ run_args.quality_filter
    /\ Len(run_examples) = 1
    /\ run_steps = <<"filter", "rebalance", "sort", "cut">>
    /\ Len(run_written) = 3
    /\ run_written[1].path = "train.jsonl"
    /\ run_written[3].path = "metadata.json"

\* ---------------------------------------------------------------------------
\* C27: what happens to a FIMExample between its creation and its
\* serialization
\* ---------------------------------------------------------------------------

\* the example as the assembler created it
CreatedOf(created, e) ==
    CHOOSE c \in {created[k] : k \in 1..Len(created)} :
        c.filepath = e.filepath /\ c.index = e.index

\* every example main holds: all_examples, rejected and the ones written
HeldExamples(exs, rejected, written) ==
    {exs[k] : k \in 1..Len(exs)}
    \cup {rejected[k] : k \in 1..Len(rejected)}
    \cup UNION {{written[w].examples[k] : k \in 1..Len(written[w].examples)} :
                   w \in 1..Len(written)}

\* e differs from c in the fields cross_file_context and complexity_score
\* at most
SameAssembledFields(e, c) ==
    [e EXCEPT !.cross_file_context = <<>>, !.complexity_score = 0]
        = [c EXCEPT !.cross_file_context = <<>>, !.complexity_score = 0]

\* C27 as stated: once created, an example is modified by the rebalancer
\* only and in cross_file_context only; before the rebalancer has run every
\* example is as it was created, and after it every field but
\* cross_file_context is.
C27_Original ==
    \A e \in HeldExamples(run_examples, run_rejected, run_written) :
        /\ [e EXCEPT !.cross_file_context = <<>>]
              = [CreatedOf(run_created, e) EXCEPT !.cross_file_context = <<>>]
        /\ ~StepDone("rebalance") => e = CreatedOf(run_created, e)

\* what generate_fim_examples and generate_all_examples may have done to
\* the created example c of file f to give e
AssembledFrom(e, c, f, args) ==
    /\ SameAssembledFields(e, c)
    /\ \/ e.cross_file_context = c.cross_file_context
       \/ /\ e.cross_file_context = f.bm25_file_ctx \o c.cross_file_context
          /\ Len(e.prefix) + Len(e.middle) + Len(e.suffix)
                + Len(e.cross_file_context) <= args.max_total_chars
    /\ e.complexity_score = f.score

\* C27: a created example is modified twice at most, both times before
\* generate_all_examples has appended it: generate_fim_examples may replace
\* cross_file_context by the BM25 context followed by the dependency
\* context when the total stays within max_total_chars, and
\* generate_all_examples sets complexity_score to the score of the file.
\* No other field changes, and no example that main holds is changed by
\* a later step (quality filter, rebalancer, sort, cut, shuffle, writes).
C27_OnlyContextAndScore ==
    [][/\ \A e \in HeldExamples(run_examples', run_rejected', run_written') :
             AssembledFrom(e, CreatedOf(run_created', e),
                           run_files'[e.filepath], run_args')
       /\ \A e \in HeldExamples(run_examples', run_rejected', run_written') :
          \A d \in HeldExamples(run_examples, run_rejected, run_written) :
             (d.filepath = e.filepath /\ d.index = e.index) => d = e]_vars

\* A run has written its files: of the two examples of a file, one was
\* given the BM25 context and one kept the dependency context for lack of
\* budget, both carry the file's score, and the rebalancer has dropped the
\* examples of the other file.
C27_Witness ==
    /\ run_pc = "done"
    /\ Len(run_written) = 3
    /\ Len(run_created) = 4
    /\ StepDone("rebalance")
    /\ Len(run_written[1].examples) = 2
    /\ \E e \in HeldExamples(<<>>, <<>>, run_written) :
          /\ e.cross_file_context = <<"b", "m", "d">>
          /\ e.complexity_score = 3
    /\ \E e \in HeldExamples(<<>>, <<>>, run_written) :
          /\ e.cross_file_context = <<"d">>
          /\ e.complexity_score = 3

\* ---------------------------------------------------------------------------
\* C28: the middle of an AST span and the bytes the AST generator selected
\* ---------------------------------------------------------------------------

\* the examples generate_fim_examples makes of a span of the file
MadeOf(span) ==
    LET made == ConvertSpan(source, FileLines[source], span, xf_context,
                            bm25_file_ctx, max_total_chars)
    IN  {made[k] : k \in 1..Len(made)}

\* C28: the middle of every ast_single_node and ast_aligned_span example
\* is the text of the bytes start_byte..end_byte of the UTF-8 source, the
\* range the AST generator selected, wherever multi-byte characters stand.
C28_MiddleIsByteRange ==
    \A ex \in Emitted :
        ex.span_kind \in {"ast_single_node", "ast_aligned_span"} =>
            \A span \in FileSpans[source][ex.span_kind] :
                ex \in MadeOf(span) =>
                    ex.middle = DecodeSlice(source, span.start_byte, span.end_byte)

\* ---------------------------------------------------------------------------
\* C29: rebalance_examples on examples of one category
\* ---------------------------------------------------------------------------

\* the categories the input examples belong to
InputCategories ==
    {categorize(reb_examples[k].span_kind) : k \in 1..Len(reb_examples)}

\* C29: when every input example belongs to one category, rebalance_examples
\* returns all of them; a non-empty input of one category never gives an
\* empty result.
C29_SingleCategoryKept ==
    (reb_pc = "returned" /\ Cardinality(InputCategories) = 1) =>
        /\ reb_result # <<>>
        /\ Len(reb_result) = Len(reb_examples)
        /\ {reb_result[k] : k \in 1..Len(reb_result)}
              = {reb_examples[k] : k \in 1..Len(reb_examples)}

\* ---------------------------------------------------------------------------
\* C30: a failed initialize and the handler's project state
\* ---------------------------------------------------------------------------

\* line k of the input has been read and answered
Answered(k) ==
    /\ k < srv_next
    /\ srv_input[k].kind = "object"
    /\ srv_input[k].method \in DispatchMethods
    /\ \A j \in 1..k : srv_input[j].kind # "value" /\ srv_input[j].method # "[list]"

\* the response written for line k
ResponseTo(k) ==
    srv_output[Cardinality({j \in 1..k : srv_input[j].kind # "blank"})]

\* the successful initialize requests before line k
GoodInits(k) ==
    {j \in 1..(k - 1) : /\ srv_input[j].kind = "object"
                        /\ srv_input[j].method = "initialize"
                        /\ srv_input[j].params_ok}

\* the project root of the last successful initialize before line k,
\* "none" when there is none
ProjectBefore(k) ==
    IF GoodInits(k) = {} THEN "none"
    ELSE srv_input[CHOOSE j \in GoodInits(k) : \A i \in GoodInits(k) : i <= j].root

\* C30: a failing initialize is answered with error -32000 and changes
\* nothing: every getContext is served from the project of the last
\* successful initialize before it, whatever failed initialize requests
\* came in between, and fails with -32000 when there was none; a
\* successful initialize replaces the state.
C30_FailedInitializeKeepsState ==
    /\ \A k \in 1..Len(srv_input) :
          Answered(k) =>
             /\ (srv_input[k].method = "initialize" /\ ~srv_input[k].params_ok) =>
                   ResponseTo(k) = ErrorResponse(srv_input[k].id, -32000)
             /\ (srv_input[k].method = "getContext" /\ srv_input[k].params_ok) =>
                   ResponseTo(k) =
                      IF ProjectBefore(k) = "none"
                        THEN ErrorResponse(srv_input[k].id, -32000)
                        ELSE ResultResponse(srv_input[k].id, ProjectBefore(k))
    /\ (srv_pc = "running" /\ ~srv_should_exit) => srv_state = ProjectBefore(srv_next)

\* A project was initialized, a second initialize failed, and the
\* getContext after it was served from the first project.
C30_Witness ==
    /\ Len(srv_input) = 3
    /\ srv_input[1] = InitializeRequest("1", "/a")
    /\ srv_input[2] = Request(NoId, "initialize", FALSE)
    /\ srv_input[3] = Request("2", "getContext", TRUE)
    /\ Len(srv_output) = 3
    /\ srv_output[2] = ErrorResponse(NoId, -32000)
    /\ srv_output[3] = ResultResponse("2", "/a")
=============================================================================
